---------------------------- MODULE Spec2Model ----------------------------
(***************************************************************************)
(* A model of the conversation core of aba (nathanfunk/aba):               *)
(*   - capabilities.py / tools.py : the capability and tool tables         *)
(*   - web/agent_session.py       : AgentSession (the WebSocket session)   *)
(*   - web/streaming_model.py     : StreamingOpenRouterModel.chat_stream   *)
(*   - runtime.py                 : AgentRuntime (the CLI session)         *)
(*                                                                         *)
(* Texts are sequences of tokens, so that concatenation, prefixes and      *)
(* parsing are computed and not assumed.  A Python dict is the sequence of *)
(* its keys in insertion order.                                            *)
(***************************************************************************)
EXTENDS Naturals, Sequences, FiniteSets, TLC

VARIABLES
    (* the agent and the session object *)
    kind,                    \* "AgentSession" (web) or "AgentRuntime" (CLI)
    capabilities,            \* agent.capabilities: list of capability names
    tool_schemas,            \* self.tool_schemas: keys in insertion order
    history,                 \* self.history
    transcript,              \* the agent's history file (<history_dir>/<name>.json)
    (* the frame of handle_user_message / _generate_response *)
    pc,                      \* where the handler is
    user_input,              \* the handler's argument
    messages,                \* local: the message list sent upstream
    tools,                   \* local: the tools array, or None
    accumulated_content,     \* local
    accumulated_tool_calls,  \* local
    iteration,               \* local: the loop variable of range(max_iterations)
    tool_calls,              \* local: chunk["calls"] being executed
    call_ix,                 \* position in tool_calls of the call being executed
    display_args,            \* local: Unbound until first assigned in this frame
    (* one chat_stream generator (one upstream request) *)
    st,                      \* "none" | "open" | "closed"
    tool_calls_accumulator,  \* index -> accumulated call
    events,                  \* the events the generator has yielded, in order
    nlines,                  \* lines of the response read so far
    lines,                   \* observation only: those lines, in order
    (* observation only: what the outside world saw *)
    ui,                      \* messages sent over the WebSocket in this turn
    requests,                \* number of upstream requests issued in this turn
    request,                 \* the body of the latest upstream request
    invocations,             \* tool callables entered in this turn, in order
    inflight,                \* tool invocations dispatched and not yet returned
    received,                \* tool-call delta fragments received by the generator
    emitted_at,              \* Len(received) when each event was yielded
    turns,                   \* client messages (CLI: input lines) handled so far
    at_start,                \* history, transcript and saves when the current turn began
    last_end,                \* how the latest handler call returned
    saves,                   \* number of writes of the history file
    sent,                    \* text deltas, tool calls and early ends the provider sent so far
    (* the world around the session *)
    preserve_history,        \* self.agent.config.get("preserve_history", True)
    stored,                  \* the agent's definition file (<agents_dir>/<name>.json)
    client,                  \* the client's end of the WebSocket
    peer,                    \* a second session, of the same agent or of another one
    writable                 \* open(history_file, 'w') succeeds

sessionVars == <<kind, capabilities, tool_schemas, history, transcript>>
frameVars == <<pc, user_input, messages, tools, accumulated_content,
               accumulated_tool_calls, iteration, tool_calls, call_ix, display_args>>
streamVars == <<st, tool_calls_accumulator, events, nlines, lines, received, emitted_at>>
obsVars == <<ui, requests, request, invocations, inflight, turns, at_start, last_end, saves,
            sent>>
worldVars == <<preserve_history, stored, client, peer, writable>>
vars == <<sessionVars, frameVars, streamVars, obsVars, worldVars>>

(***************************************************************************)
(* Bounds of the model.                                                    *)
(***************************************************************************)
MaxCaps == 3        \* length of an agent's capability list
MaxLines == 4       \* data lines of one upstream response
MaxTurns == 2       \* user messages of one session
MaxPayload == 2     \* text deltas, tool calls and early ends the provider sends in one session
MaxSessions == 2    \* sessions of one agent, one after the other

(***************************************************************************)
(* Small helpers.                                                          *)
(***************************************************************************)
Range(s) == {s[i] : i \in DOMAIN s}

SeqsUpTo(S, n) == UNION {[1..m -> S] : m \in 0..n}

None == "None"

RECURSIVE Flatten(_)
Flatten(ss) == IF ss = <<>> THEN <<>> ELSE Head(ss) \o Flatten(Tail(ss))

(***************************************************************************)
(* capabilities.py: CAPABILITIES, and tools.py: TOOL_SCHEMAS.              *)
(***************************************************************************)
CapabilityNames == {"agent-creation", "file-operations", "code-execution", "web-access"}

CAPABILITIES ==
    [c \in CapabilityNames |->
        CASE c = "agent-creation" ->
                [tools |-> <<"create_agent", "modify_agent", "delete_agent",
                             "list_agents", "get_agent_details">>]
          [] c = "file-operations" ->
                [tools |-> <<"read_file", "write_file", "list_files", "delete_file">>]
          [] c = "code-execution" ->
                [tools |-> <<"exec_python", "exec_shell">>]
          [] c = "web-access" ->
                [tools |-> <<"web_search", "web_fetch">>]]

TOOL_SCHEMAS ==
    {"create_agent", "modify_agent", "delete_agent", "list_agents",
     "get_agent_details", "read_file", "write_file", "list_files", "delete_file",
     "exec_python", "exec_shell", "web_search", "web_fetch", "get_context_info"}

\* co_varnames of each tool function that start with an underscore
InternalParams(t) ==
    CASE t \in {"create_agent", "modify_agent", "delete_agent", "list_agents",
                "get_agent_details"} -> {"_manager"}
      [] t = "get_context_info" -> {"_runtime"}
      [] OTHER -> {}

(***************************************************************************)
(* _load_tools.  tools[k] = v on a dict keeps the place of a key that is   *)
(* already there.                                                          *)
(***************************************************************************)
DictSet(d, k) == IF k \in Range(d) THEN d ELSE Append(d, k)

RECURSIVE AddCapabilityTools(_, _)
AddCapabilityTools(d, ts) ==
    IF ts = <<>> THEN d
    ELSE AddCapabilityTools(
            IF Head(ts) \in TOOL_SCHEMAS THEN DictSet(d, Head(ts)) ELSE d, Tail(ts))

RECURSIVE LoadCapabilities(_, _)
LoadCapabilities(d, caps) ==
    IF caps = <<>> THEN d
    ELSE LoadCapabilities(
            IF Head(caps) \notin DOMAIN CAPABILITIES THEN d
            ELSE AddCapabilityTools(d, CAPABILITIES[Head(caps)].tools),
            Tail(caps))

\* _load_tools without its last statement
AlwaysOn_NoContextInfo(d) == d

\* "Always include get_context_info tool"
AlwaysOn(d) ==
    IF "get_context_info" \in TOOL_SCHEMAS THEN DictSet(d, "get_context_info") ELSE d

\* AgentSession._load_tools
LoadTools(caps) == AlwaysOn(LoadCapabilities(<<>>, caps))

RECURSIVE RuntimeLoadCapabilities(_, _)
RuntimeLoadCapabilities(d, caps) ==
    IF caps = <<>> THEN d
    ELSE RuntimeLoadCapabilities(
            IF Head(caps) \notin DOMAIN CAPABILITIES THEN d
            ELSE AddCapabilityTools(d, CAPABILITIES[Head(caps)].tools),
            Tail(caps))

\* AgentRuntime._load_tools
RuntimeLoadTools(caps) ==
    LET d == RuntimeLoadCapabilities(<<>>, caps)
    IN  IF "get_context_info" \in TOOL_SCHEMAS THEN DictSet(d, "get_context_info") ELSE d

(***************************************************************************)
(* JSON texts.  An arguments string is a sequence of tokens: the brackets  *)
(* and one token per "key": value pair.  json.loads accepts an object      *)
(* {pair ...} or the empty array; everything else is a JSONDecodeError.    *)
(***************************************************************************)
PairTokens == {"path", "_manager", "_runtime", "name", "capabilities"}

IsObjectText(s) ==
    /\ Len(s) >= 2
    /\ s[1] = "{"
    /\ s[Len(s)] = "}"
    /\ \A i \in 2..(Len(s) - 1) : s[i] \in PairTokens

IsArrayText(s) == s = <<"[", "]">>

\* json.loads(tool_args_str): kind "object" (a dict, here its key set),
\* "array" (a list) or "error" (json.JSONDecodeError)
JsonLoads(s) ==
    IF IsObjectText(s)
    THEN [kind |-> "object", keys |-> {s[i] : i \in 2..(Len(s) - 1)}]
    ELSE IF IsArrayText(s) THEN [kind |-> "array", keys |-> {}]
    ELSE [kind |-> "error", keys |-> {}]

\* k.startswith("_")
StartsWithUnderscore(k) == k \in {"_manager", "_runtime"}

(***************************************************************************)
(* StreamingOpenRouterModel.chat_stream: the tool-call accumulator.        *)
(***************************************************************************)
EmptyCall == [id |-> "", type |-> "function",
              function |-> [name |-> "", arguments |-> <<>>]]

\* one element of delta["tool_calls"]; a has* flag tells whether the key is there
Delta(hasIndex, index, hasId, id, hasName, name, hasArgs, arguments) ==
    [hasIndex |-> hasIndex, index |-> index, hasId |-> hasId, id |-> id,
     hasName |-> hasName, name |-> name, hasArgs |-> hasArgs, arguments |-> arguments]

DeltaIndex(d) == IF d.hasIndex THEN d.index ELSE 0

\* = in place of +=
AppendArguments_Overwrite(old, frag) == frag

\* tool_calls_accumulator[index]["function"]["arguments"] += func["arguments"]
AppendArguments(old, frag) == old \o frag

AccumulateDelta(acc, d) ==
    LET index == DeltaIndex(d)
        acc1 == [i \in DOMAIN acc \cup {index} |->
                    IF i \in DOMAIN acc THEN acc[i] ELSE EmptyCall]
        c0 == acc1[index]
        c1 == IF d.hasId THEN [c0 EXCEPT !.id = d.id] ELSE c0
        c2 == IF d.hasName THEN [c1 EXCEPT !.function.name = d.name] ELSE c1
        c3 == IF d.hasArgs
              THEN [c2 EXCEPT !.function.arguments = AppendArguments(@, d.arguments)]
              ELSE c2
    IN  [acc1 EXCEPT ![index] = c3]

RECURSIVE AccumulateDeltas(_, _)
AccumulateDeltas(acc, ds) ==
    IF ds = <<>> THEN acc
    ELSE AccumulateDeltas(AccumulateDelta(acc, Head(ds)), Tail(ds))

Min(S) == CHOOSE x \in S : \A y \in S : x <= y

Max(S) == CHOOSE x \in S : \A y \in S : x >= y

RECURSIVE Ascending(_)
Ascending(S) == IF S = {} THEN <<>> ELSE <<Min(S)>> \o Ascending(S \ {Min(S)})

RECURSIVE Descending(_)
Descending(S) == IF S = {} THEN <<>> ELSE <<Max(S)>> \o Descending(S \ {Max(S)})

\* sorted(..., reverse=True)
SortedKeys_Descending(acc) == Descending(DOMAIN acc)

\* sorted(tool_calls_accumulator.keys())
SortedKeys(acc) == Ascending(DOMAIN acc)

\* [tool_calls_accumulator[i] for i in sorted(tool_calls_accumulator.keys())]
AccumulatedCalls(acc) ==
    LET ks == SortedKeys(acc) IN [j \in 1..Len(ks) |-> acc[ks[j]]]

(***************************************************************************)
(* chat_stream: one line of the response.  A line is                       *)
(*   "blank"     an empty line or a comment line                           *)
(*   "other"     a line that does not start with "data: "                  *)
(*   "sentinel"  data: [DONE]                                              *)
(*   "badjson"   a data line whose payload json.loads rejects              *)
(*   "error"     a payload with a top-level "error"                        *)
(*   "malformed" a payload without choices[0]                              *)
(*   "chunk"     a payload with choices[0]                                 *)
(* and in place of a line the read can raise:                              *)
(*   "timeout"   httpx.TimeoutException                                    *)
(*   "reset"     httpx.RemoteProtocolError                                 *)
(*   "failure"   any other exception                                       *)
(***************************************************************************)
NoUsage == [prompt_tokens |-> 0, completion_tokens |-> 0, total_tokens |-> 0]

ProviderUsage == [prompt_tokens |-> 1, completion_tokens |-> 1, total_tokens |-> 2]

Line(k) ==
    [kind |-> k, content |-> <<>>, hasToolCalls |-> FALSE, deltas |-> <<>>,
     finish_reason |-> None, hasUsage |-> FALSE]

ContentLine(text) == [Line("chunk") EXCEPT !.content = text]

ToolCallLine(ds) == [Line("chunk") EXCEPT !.hasToolCalls = TRUE, !.deltas = ds]

FinishLine(reason, hasUsage) ==
    [Line("chunk") EXCEPT !.finish_reason = reason, !.hasUsage = hasUsage]

\* a chunk whose choices[0] has neither content nor finish_reason, with usage
UsageLine == [Line("chunk") EXCEPT !.hasUsage = TRUE]

ContentEvent(delta) == [type |-> "content", delta |-> delta]

ToolCallsEvent(calls) == [type |-> "tool_calls", calls |-> calls]

DoneEvent(reason, usage) == [type |-> "done", finish_reason |-> reason, usage |-> usage]

ErrorEvent(message) == [type |-> "error", message |-> message]

\* the body of the try block for one parsed chunk: the events it yields, in
\* order, and the accumulator it leaves
ChunkEvents(acc, c) ==
    LET acc1 == IF c.hasToolCalls THEN AccumulateDeltas(acc, c.deltas) ELSE acc
        content == IF c.content # <<>> THEN <<ContentEvent(c.content)>> ELSE <<>>
        calls == IF c.finish_reason = "tool_calls"
                 THEN <<ToolCallsEvent(AccumulatedCalls(acc1))>> ELSE <<>>
        done == IF c.finish_reason # None
                THEN <<DoneEvent(c.finish_reason,
                                 IF c.hasUsage THEN ProviderUsage ELSE NoUsage)>>
                ELSE <<>>
    IN  [events |-> content \o calls \o done, acc |-> acc1, st |-> "open"]

\* the bad line ends the stream
BadJsonLine_Abort(acc) ==
    [events |-> <<ErrorEvent("Failed to parse SSE chunk")>>, acc |-> acc, st |-> "closed"]

\* except json.JSONDecodeError: yield the error event, continue
BadJsonLine(acc) ==
    [events |-> <<ErrorEvent("Failed to parse SSE chunk")>>, acc |-> acc, st |-> "open"]

\* continue in place of return
UpstreamErrorLine_Continue(acc) ==
    [events |-> <<ErrorEvent("upstream error")>>, acc |-> acc, st |-> "open"]

\* if "error" in chunk: yield the error event, return
UpstreamErrorLine(acc) ==
    [events |-> <<ErrorEvent("upstream error")>>, acc |-> acc, st |-> "closed"]

\* the request is not sent without the API key; a response whose status is
\* not 200 is read whole into one error event
Respond(api_key, status) ==
    IF ~api_key
    THEN [events |-> <<ErrorEvent("OpenRouter API key not found")>>, st |-> "closed"]
    ELSE IF status # 200
    THEN [events |-> <<ErrorEvent("OpenRouter API error")>>, st |-> "closed"]
    ELSE [events |-> <<>>, st |-> "open"]

\* one pass of the loop over response.aiter_lines()
ReadLine(acc, l) ==
    CASE l.kind \in {"blank", "other"} -> [events |-> <<>>, acc |-> acc, st |-> "open"]
      [] l.kind = "sentinel" -> [events |-> <<>>, acc |-> acc, st |-> "closed"]
      [] l.kind = "badjson" -> BadJsonLine(acc)
      [] l.kind = "error" -> UpstreamErrorLine(acc)
      [] l.kind = "timeout" ->
            [events |-> <<ErrorEvent("Request timed out")>>, acc |-> acc, st |-> "closed"]
      [] l.kind = "reset" ->
            [events |-> <<ErrorEvent("Connection error")>>, acc |-> acc, st |-> "closed"]
      [] l.kind = "failure" ->
            [events |-> <<ErrorEvent("Streaming error")>>, acc |-> acc, st |-> "closed"]
      [] l.kind = "malformed" ->
            [events |-> <<ErrorEvent("Malformed chunk")>>, acc |-> acc, st |-> "open"]
      [] l.kind = "chunk" -> ChunkEvents(acc, l)


(***************************************************************************)
(* AgentSession: history, transcript and the request body.                 *)
(***************************************************************************)
\* self.history[-20:]
HistoryWindow == 20

\* a loop of one more pass
max_iterations_Eleven == 10 + 1

\* handle_user_message: max_iterations = 10
max_iterations == 10

Unbound == [bound |-> FALSE, keys |-> {}]

Bound(keys) == [bound |-> TRUE, keys |-> keys]

NoTools == [present |-> FALSE, array |-> <<>>]

NoFile == [exists |-> FALSE, data |-> <<>>]

NoRequest == [messages |-> <<>>, tools |-> NoTools]

\* a history entry (role, message, metadata); metadata is a dict that may
\* lack its keys
Entry(role, message, hasToolCalls, calls, hasUsage, usage) ==
    [role |-> role, message |-> message, hasToolCalls |-> hasToolCalls,
     tool_calls |-> calls, hasUsage |-> hasUsage, usage |-> usage]

\* the dict {}
EmptyUsage == [k \in {} |-> 0]

\* the tool calls are never written
SaveHistory_NoToolCalls(h) ==
    [exists |-> TRUE,
     data |-> [i \in DOMAIN h |->
                 LET keepUsage == h[i].hasUsage /\ h[i].usage # EmptyUsage
                 IN  Entry(h[i].role, h[i].message, FALSE, <<>>,
                           keepUsage, IF keepUsage THEN h[i].usage ELSE NoUsage)]]

\* _save_history: the list written to the file; a metadata field is kept if
\* it is truthy (the usage dict of a turn has its three keys, so it is; the
\* {} that _load_history puts in is not)
SaveHistory(h) ==
    [exists |-> TRUE,
     data |-> [i \in DOMAIN h |->
                 LET keepCalls == h[i].hasToolCalls /\ h[i].tool_calls # <<>>
                     keepUsage == h[i].hasUsage /\ h[i].usage # EmptyUsage
                 IN  Entry(h[i].role, h[i].message,
                           keepCalls, IF keepCalls THEN h[i].tool_calls ELSE <<>>,
                           keepUsage, IF keepUsage THEN h[i].usage ELSE NoUsage)]]

\* item.get("tool_calls", []) and item.get("usage", {}) for an item of the file
ItemToolCalls(item) ==
    IF "hasToolCalls" \in DOMAIN item /\ item.hasToolCalls THEN item.tool_calls ELSE <<>>

ItemUsage(item) ==
    IF "hasUsage" \in DOMAIN item /\ item.hasUsage THEN item.usage ELSE EmptyUsage

\* _load_history: nothing without preserve_history or without the file;
\* every entry gets a metadata dict with both keys
LoadHistory(preserve, file) ==
    IF ~preserve \/ ~file.exists THEN <<>>
    ELSE [i \in DOMAIN file.data |->
            Entry(file.data[i].role, file.data[i].message,
                  TRUE, ItemToolCalls(file.data[i]), TRUE, ItemUsage(file.data[i]))]

\* the early return is missing
WriteHistory_Always(h) ==
    /\ transcript' = SaveHistory(h)
    /\ saves' = saves + 1

\* self._save_history() for the history h
WriteHistory(h) ==
    IF preserve_history
    THEN /\ transcript' = SaveHistory(h)
         /\ saves' = saves + 1
    ELSE UNCHANGED <<transcript, saves>>

\* _build_system_prompt: the parts joined by blank lines (agent.system_prompt
\* is the dataclass default, the empty string)
BuildSystemPrompt(caps) ==
    LET known == SelectSeq(caps, LAMBDA c : c \in DOMAIN CAPABILITIES)
    IN  [i \in DOMAIN known |-> <<"addition", known[i]>>]

Content(text) == [none |-> FALSE, text |-> text]

NoContent == [none |-> TRUE, text |-> <<>>]

\* accumulated_content or None
ContentOrNone(text) == IF text = <<>> THEN NoContent ELSE Content(text)

LastN(h, n) == IF Len(h) <= n THEN h ELSE SubSeq(h, Len(h) - n + 1, Len(h))

\* the message built for one history entry
HistoryMessage(e) ==
    [role |-> IF e.role = "user" THEN "user" ELSE "assistant",
     content |-> IF e.role = "agent" /\ e.hasToolCalls /\ e.tool_calls # <<>>
                 THEN Content(e.message \o <<"[Tools used:">>)
                 ELSE Content(e.message)]

\* _build_messages
BuildMessages(h, caps, text) ==
    LET prompt == BuildSystemPrompt(caps)
        window == LastN(h, HistoryWindow)
    IN  (IF prompt # <<>> THEN <<[role |-> "system", content |-> Content(prompt)]>>
         ELSE <<>>)
        \o [i \in DOMAIN window |-> HistoryMessage(window[i])]
        \o <<[role |-> "user", content |-> Content(text)]>>

\* self._build_tools_array() if self.tool_schemas else None
BuildTools(schemas) ==
    IF schemas # <<>> THEN [present |-> TRUE, array |-> schemas] ELSE NoTools

(***************************************************************************)
(* Tool results.  A result text is a token sequence whose first token is   *)
(* "Error" exactly when the Python string starts with "Error".             *)
(***************************************************************************)
NotFoundResult(name) == <<"Error", ": Tool", name, "not found">>

InvalidJsonResult == <<"Error", ": Invalid JSON arguments">>

InvalidArgumentsResult == <<"Error", ": Invalid arguments">>

ExecErrorResult == <<"Error", " executing tool">>

\* what a tool function itself returns: a text, or a text that reports an
\* error (read_file returns "Error: File ... not found")
ReturnedText == <<"contents">>

ReturnedErrorText == <<"Error", ": File not found">>

\* result_str.startswith("Error")
StartsWithError(r) == r # <<>> /\ r[1] = "Error"

Outcomes == {"text", "error_text", "TypeError", "Exception"}

OutcomeResult(o) ==
    CASE o = "text" -> ReturnedText
      [] o = "error_text" -> ReturnedErrorText
      [] o = "TypeError" -> InvalidArgumentsResult
      [] o = "Exception" -> ExecErrorResult

\* success as set beside result in the try block and its except clauses
OutcomeSuccess(o) == o \in {"text", "error_text"}


(***************************************************************************)
(* Messages of the request body and of the WebSocket.                      *)
(***************************************************************************)
AssistantMessage(content, calls) ==
    [role |-> "assistant", content |-> content, tool_calls |-> calls]

\* the tool message without the id of its call
ToolMessage_NoId(id, result) ==
    [role |-> "tool", tool_call_id |-> "", content |-> Content(result)]

ToolMessage(id, result) ==
    [role |-> "tool", tool_call_id |-> id, content |-> Content(result)]

\* every chunk says it is the last one
StreamChunk_Complete(content, complete) ==
    [type |-> "stream_chunk", content |-> content, is_complete |-> TRUE]

StreamChunk(content, complete) ==
    [type |-> "stream_chunk", content |-> content, is_complete |-> complete]

ToolStart(name, args) == [type |-> "tool_start", tool_name |-> name, arguments |-> args]

ToolResult(name, result, success) ==
    [type |-> "tool_result", tool_name |-> name, result |-> result, success |-> success]

AgentMessage(content, usage) ==
    [type |-> "agent_message", content |-> content, usage |-> usage]

\* the message without its flag
ErrorMessage_NoFlag(message, recoverable) == [type |-> "error", message |-> message]

ErrorMessage(message, recoverable) ==
    [type |-> "error", message |-> message, recoverable |-> recoverable]

InfoMessage(message) == [type |-> "info", message |-> message]

CapabilitiesInfo(caps, names) == [type |-> "info", capabilities |-> caps, tools |-> names]

(***************************************************************************)
(* AgentSession.handle_user_message.  The handler is cut at its awaits:    *)
(* the next event of the stream and the return of a tool run by            *)
(* asyncio.to_thread.  The pieces below set the frame, the generator, ui,  *)
(* requests and request; each action adds the rest.                        *)
(***************************************************************************)
\* self.model.chat_stream(messages, tools=tools): a new generator
NewRequest(msgs, tl) ==
    /\ st' = "open"
    /\ tool_calls_accumulator' = <<>>
    /\ events' = <<>>
    /\ nlines' = 0
    /\ lines' = <<>>
    /\ received' = <<>>
    /\ emitted_at' = <<>>
    /\ requests' = requests + 1
    /\ request' = [messages |-> msgs, tools |-> tl]

\* the handler returns: its frame and its generator are gone
ReturnFrame(how) ==
    /\ last_end' = how
    /\ pc' = "idle"
    /\ user_input' = <<>>
    /\ messages' = <<>>
    /\ tools' = NoTools
    /\ accumulated_content' = <<>>
    /\ accumulated_tool_calls' = <<>>
    /\ iteration' = 0
    /\ tool_calls' = <<>>
    /\ call_ix' = 0
    /\ display_args' = Unbound
    /\ st' = "none"
    /\ tool_calls_accumulator' = <<>>
    /\ events' = <<>>
    /\ nlines' = 0
    /\ lines' = <<>>
    /\ received' = <<>>
    /\ emitted_at' = <<>>
    /\ UNCHANGED <<requests, request>>

\* the generator after it read line l and the consumer took the events `taken`
StreamAfter(l, r, taken) ==
    LET rec == received \o (IF l.kind = "chunk" /\ l.hasToolCalls THEN l.deltas ELSE <<>>)
    IN  /\ st' = r.st
        /\ tool_calls_accumulator' = r.acc
        /\ events' = events \o taken
        /\ nlines' = nlines + 1
        /\ lines' = Append(lines, l)
        /\ received' = rec
        /\ emitted_at' = emitted_at \o [i \in 1..Len(taken) |-> Len(rec)]

\* the code after the loop without its send_message
LimitReached_Silent(uiNow) ==
    /\ ui' = uiNow
    /\ ReturnFrame("ceiling")

\* the code after the loop ("Max iterations reached")
LimitReached(uiNow) ==
    /\ ui' = Append(uiNow, ErrorMessage("Tool execution limit reached", FALSE))
    /\ ReturnFrame("ceiling")

\* the for loop moves on: the next iteration's request, or the end of the loop
Continue(msgs, ac, atc, da, uiNow) ==
    IF iteration + 1 < max_iterations
    THEN /\ pc' = "stream"
         /\ iteration' = iteration + 1
         /\ messages' = msgs
         /\ accumulated_content' = ac
         /\ accumulated_tool_calls' = atc
         /\ display_args' = da
         /\ tool_calls' = <<>>
         /\ call_ix' = 0
         /\ ui' = uiNow
         /\ UNCHANGED <<user_input, tools, last_end>>
         /\ NewRequest(msgs, tools)
    ELSE LimitReached(uiNow)

\* the server's loop received {"type": "user_message"} and awaits the handler
UserMessage(text) ==
    /\ kind = "AgentSession"
    /\ pc = "idle"
    /\ LET msgs == BuildMessages(history, capabilities, text)
           tl == BuildTools(tool_schemas)
       IN  /\ pc' = "stream"
           /\ user_input' = text
           /\ messages' = msgs
           /\ tools' = tl
           /\ accumulated_content' = <<>>
           /\ accumulated_tool_calls' = <<>>
           /\ iteration' = 0
           /\ tool_calls' = <<>>
           /\ call_ix' = 0
           /\ display_args' = Unbound
           /\ st' = "open"
           /\ tool_calls_accumulator' = <<>>
           /\ events' = <<>>
           /\ nlines' = 0
           /\ lines' = <<>>
           /\ received' = <<>>
           /\ emitted_at' = <<>>
           /\ requests' = 1
           /\ request' = [messages |-> msgs, tools |-> tl]
    /\ ui' = <<>>
    /\ turns' = turns + 1
    /\ at_start' = [history |-> history, transcript |-> transcript, saves |-> saves]
    /\ UNCHANGED last_end
    /\ invocations' = <<>>
    /\ UNCHANGED <<sessionVars, inflight, saves>>

RECURSIVE ContentPrefixLen(_)
ContentPrefixLen(evs) ==
    IF evs # <<>> /\ Head(evs).type = "content" THEN 1 + ContentPrefixLen(Tail(evs))
    ELSE 0

\* the agent entry before the user entry
DoneEntries_AgentFirst(text, ac, atc, usage) ==
    <<Entry("agent", ac, TRUE, atc, TRUE, usage),
      Entry("user", text, FALSE, <<>>, FALSE, NoUsage)>>

\* the two self.history.append(...) of the "done" branch
DoneEntries(text, ac, atc, usage) ==
    <<Entry("user", text, FALSE, <<>>, FALSE, NoUsage),
      Entry("agent", ac, TRUE, atc, TRUE, usage)>>

\* the "done" branch: the final messages, the two history entries, the save.
\* _save_history() is called inside the try of the stream loop: when its open()
\* raises, `except Exception` sends the session error after the final messages.
Finalize(ac, usage, uiNow) ==
    LET h == history \o DoneEntries(user_input, ac, accumulated_tool_calls, usage)
        final == uiNow \o <<StreamChunk(<<>>, TRUE), AgentMessage(ac, usage)>>
    IN  /\ history' = h
        /\ IF preserve_history /\ ~writable
           THEN /\ ui' = Append(final, ErrorMessage("Session error", FALSE))
                /\ UNCHANGED <<transcript, saves>>
                /\ ReturnFrame("exception")
           ELSE /\ ui' = final
                /\ WriteHistory(h)
                /\ ReturnFrame("done")

\* the body of `async for chunk in self.model.chat_stream(...)` for the events
\* one line of the response makes the generator yield
SessionLine(l) ==
    /\ pc = "stream"
    /\ st = "open"
    /\ LET r == ReadLine(tool_calls_accumulator, l)
           n == ContentPrefixLen(r.events)
           ac == accumulated_content \o Flatten([i \in 1..n |-> r.events[i].delta])
           ui1 == ui \o [i \in 1..n |-> StreamChunk(r.events[i].delta, FALSE)]
           rest == SubSeq(r.events, n + 1, Len(r.events))
       IN  IF rest = <<>>
           THEN /\ UNCHANGED <<history, transcript, saves>>
                /\ IF r.st = "open"
                   THEN /\ accumulated_content' = ac
                        /\ ui' = ui1
                        /\ StreamAfter(l, r, r.events)
                        /\ UNCHANGED <<pc, user_input, messages, tools,
                                       accumulated_tool_calls, iteration, tool_calls,
                                       call_ix, display_args, requests, request,
                                       last_end>>
                   ELSE Continue(messages, ac, accumulated_tool_calls, display_args, ui1)
           ELSE LET e == Head(rest) IN
                CASE e.type = "tool_calls" ->
                        LET msgs == Append(messages,
                                           AssistantMessage(ContentOrNone(ac), e.calls))
                        IN  /\ UNCHANGED <<history, transcript, saves>>
                            /\ IF e.calls = <<>>
                               THEN Continue(msgs, <<>>, accumulated_tool_calls,
                                             display_args, ui1)
                               ELSE /\ pc' = "tool"
                                    /\ tool_calls' = e.calls
                                    /\ call_ix' = 1
                                    /\ messages' = msgs
                                    /\ accumulated_content' = ac
                                    /\ ui' = ui1
                                    /\ StreamAfter(l, r, SubSeq(r.events, 1, n + 1))
                                    /\ UNCHANGED <<user_input, tools, iteration,
                                                   accumulated_tool_calls, display_args,
                                                   requests, request, last_end>>
                  [] e.type = "done" -> Finalize(ac, e.usage, ui1)
                  [] e.type = "error" ->
                        /\ ui' = Append(ui1, ErrorMessage(e.message, TRUE))
                        /\ ReturnFrame("error")
                        /\ UNCHANGED <<history, transcript, saves>>
    /\ UNCHANGED <<kind, capabilities, tool_schemas, invocations, inflight, turns, at_start>>

\* a lookup in the catalog in place of the session's own map
Granted_Catalog(name) == name \in TOOL_SCHEMAS

\* tool_name in self.tool_schemas
Granted(name) == name \in Range(tool_schemas)

\* from "Send tool result to client" to the end of the loop body for one call
FinishCall(name, id, result, success, da, uiNow) ==
    LET ui2 == Append(uiNow, ToolResult(name, result, success))
    IN  IF ~da.bound
        THEN \* display_args is read unassigned: UnboundLocalError, caught by
             \* the handler's outer `except Exception`
             /\ ui' = Append(ui2, ErrorMessage("Session error", FALSE))
             /\ ReturnFrame("exception")
        ELSE LET atc == Append(accumulated_tool_calls,
                               [tool_name |-> name, arguments |-> da.keys,
                                result |-> result,
                                success |-> ~StartsWithError(result)])
                 msgs == Append(messages, ToolMessage(id, result))
             IN  IF call_ix < Len(tool_calls)
                 THEN /\ pc' = "tool"
                      /\ call_ix' = call_ix + 1
                      /\ messages' = msgs
                      /\ accumulated_tool_calls' = atc
                      /\ display_args' = da
                      /\ ui' = ui2
                      /\ UNCHANGED <<user_input, tools, accumulated_content, iteration,
                                     tool_calls, streamVars, requests, request, last_end>>
                 ELSE Continue(msgs, <<>>, atc, da, ui2)

\* one pass of `for tool_call in tool_calls` up to the await of the tool, or
\* to the end of the pass when no tool is run
ExecuteTool ==
    /\ pc = "tool"
    /\ LET call == tool_calls[call_ix]
           name == call.function.name
           parsed == JsonLoads(call.function.arguments)
       IN  IF parsed.kind = "error"
           THEN /\ FinishCall(name, call.id, InvalidJsonResult, FALSE, display_args, ui)
                /\ UNCHANGED <<invocations, inflight>>
           ELSE IF parsed.kind # "object"
           THEN \* tool_args.items() on a list: AttributeError, `except Exception`
                /\ FinishCall(name, call.id, ExecErrorResult, FALSE, display_args, ui)
                /\ UNCHANGED <<invocations, inflight>>
           ELSE LET da == Bound({k \in parsed.keys : ~StartsWithUnderscore(k)})
                    ui1 == Append(ui, ToolStart(name, da.keys))
                IN  IF ~Granted(name)
                    THEN /\ FinishCall(name, call.id, NotFoundResult(name), FALSE, da, ui1)
                         /\ UNCHANGED <<invocations, inflight>>
                    ELSE /\ pc' = "await_tool"
                         /\ display_args' = da
                         /\ ui' = ui1
                         /\ invocations' =
                                Append(invocations,
                                       [name |-> name, id |-> call.id,
                                        args |-> parsed.keys \cup InternalParams(name)])
                         /\ inflight' = inflight \cup {call.id}
                         /\ UNCHANGED <<user_input, messages, tools, accumulated_content,
                                        accumulated_tool_calls, iteration, tool_calls,
                                        call_ix, streamVars, requests, request, last_end>>
    /\ UNCHANGED <<sessionVars, turns, at_start, saves>>

\* the session loads its tools again from the agent file after every tool
ToolReturns_Reload(o) ==
    /\ pc = "await_tool"
    /\ LET call == tool_calls[call_ix]
       IN  /\ inflight' = inflight \ {call.id}
           /\ FinishCall(call.function.name, call.id, OutcomeResult(o),
                         OutcomeSuccess(o), display_args, ui)
    /\ tool_schemas' = LoadTools(stored'.capabilities)
    /\ UNCHANGED <<kind, capabilities, history, transcript, invocations, turns, at_start,
                   saves>>

\* asyncio.to_thread(schema.function, **tool_args) is over
ToolReturns(o) ==
    /\ pc = "await_tool"
    /\ LET call == tool_calls[call_ix]
       IN  /\ inflight' = inflight \ {call.id}
           /\ FinishCall(call.function.name, call.id, OutcomeResult(o),
                         OutcomeSuccess(o), display_args, ui)
    /\ UNCHANGED <<sessionVars, invocations, turns, at_start, saves>>


(***************************************************************************)
(* AgentRuntime: run and _generate_response.  model.chat and the tool      *)
(* functions are called synchronously; the handler is cut where it takes   *)
(* an answer from outside: the response of model.chat and the outcome of a *)
(* tool function.  Lines printed to the terminal are kept in ui.           *)
(***************************************************************************)
\* _generate_response: max_iterations = 10
runtime_max_iterations == 10

RuntimeEntry(role, message) == [role |-> role, message |-> message]

\* AgentRuntime._save_history: the list written to the file
RuntimeSaveHistory(h) == [exists |-> TRUE, data |-> h]

\* AgentRuntime._load_history: (role, message) of every item of the file
RuntimeLoadHistory(preserve, file) ==
    IF ~preserve \/ ~file.exists THEN <<>>
    ELSE [i \in DOMAIN file.data |->
            RuntimeEntry(file.data[i].role, file.data[i].message)]

\* self._save_history() at the end of run
RuntimeWriteHistory(h) ==
    IF preserve_history
    THEN /\ transcript' = RuntimeSaveHistory(h)
         /\ saves' = saves + 1
    ELSE UNCHANGED <<transcript, saves>>

Printed(what, text) == [type |-> "print", what |-> what, text |-> text]

NoResponseText == <<"(No response from model)">>

LimitReachedText == <<"(Tool execution limit reached - please try a simpler request)">>

\* the messages list built at the top of _generate_response
RuntimeBuildMessages(h, caps, text) ==
    LET prompt == BuildSystemPrompt(caps)
        window == LastN(h, HistoryWindow)
    IN  (IF prompt # <<>> THEN <<[role |-> "system", content |-> Content(prompt)]>>
         ELSE <<>>)
        \o [i \in DOMAIN window |->
                [role |-> IF window[i].role = "user" THEN "user" ELSE "assistant",
                 content |-> Content(window[i].message)]]
        \o <<[role |-> "user", content |-> Content(text)]>>

\* tool_name not in self.tool_schemas
RuntimeGranted(name) == name \in Range(tool_schemas)

\* self.model.chat(messages, tools=tools)
RuntimeRequest(msgs, tl) ==
    /\ requests' = requests + 1
    /\ request' = [messages |-> msgs, tools |-> tl]

\* _generate_response returns `text` to run, which prints it and appends it
\* to the history
RuntimeReturn(text, how, uiNow) ==
    /\ history' = Append(history, RuntimeEntry("agent", text))
    /\ ui' = Append(uiNow, Printed("response", text))
    /\ ReturnFrame(how)

\* run read a line that is neither empty nor a command
RunInput(text) ==
    /\ kind = "AgentRuntime"
    /\ pc = "idle"
    /\ LET h == Append(history, RuntimeEntry("user", text))
           msgs == RuntimeBuildMessages(h, capabilities, text)
           tl == BuildTools(tool_schemas)
       IN  /\ history' = h
           /\ pc' = "chat"
           /\ user_input' = text
           /\ messages' = msgs
           /\ tools' = tl
           /\ iteration' = 0
           /\ requests' = 1
           /\ request' = [messages |-> msgs, tools |-> tl]
    /\ ui' = <<>>
    /\ turns' = turns + 1
    /\ at_start' = [history |-> history, transcript |-> transcript, saves |-> saves]
    /\ invocations' = <<>>
    /\ UNCHANGED <<kind, capabilities, tool_schemas, transcript, accumulated_content,
                   accumulated_tool_calls, tool_calls, call_ix, display_args,
                   streamVars, inflight, last_end, saves>>

\* model.chat returned (response, usage)
ModelChat(response) ==
    /\ pc = "chat"
    /\ IF response.tool_calls = <<>>
       THEN RuntimeReturn(IF response.content.none \/ response.content.text = <<>>
                          THEN NoResponseText ELSE response.content.text,
                          "done", ui)
       ELSE /\ pc' = "run_tool"
            /\ messages' = Append(messages,
                                  AssistantMessage(response.content, response.tool_calls))
            /\ tool_calls' = response.tool_calls
            /\ call_ix' = 1
            /\ UNCHANGED <<history, user_input, tools, accumulated_content,
                           accumulated_tool_calls, iteration, display_args, streamVars,
                           ui, requests, request, last_end>>
    /\ UNCHANGED <<kind, capabilities, tool_schemas, transcript, invocations, inflight,
                   turns, at_start, saves>>

\* the entry stays
PopUser_Keep(h) == h

\* the first entry goes
PopUser_Head(h) == Tail(h)

\* self.history.pop()
PopUser(h) == SubSeq(h, 1, Len(h) - 1)

\* model.chat raised: run prints the error and pops the user entry
ModelRaises ==
    /\ pc = "chat"
    /\ history' = PopUser(history)
    /\ ui' = Append(ui, Printed("error", <<"Error contacting language model">>))
    /\ ReturnFrame("error")
    /\ UNCHANGED <<kind, capabilities, tool_schemas, transcript, invocations, inflight,
                   turns, at_start, saves>>

\* one pass of `for tool_call in tool_calls`; o is what the tool function
\* does if it is called
RuntimeExecuteTool(o) ==
    /\ pc = "run_tool"
    /\ LET call == tool_calls[call_ix]
           name == call.function.name
           parsed == JsonLoads(call.function.arguments)
           invoked == parsed.kind = "object" /\ RuntimeGranted(name)
           result == IF parsed.kind = "error" THEN InvalidJsonResult
                     ELSE IF parsed.kind # "object" THEN ExecErrorResult
                     ELSE IF ~RuntimeGranted(name) THEN NotFoundResult(name)
                     ELSE OutcomeResult(o)
           ui1 == IF parsed.kind = "object"
                  THEN Append(ui, Printed("Calling tool", <<name>>)) ELSE ui
           ui2 == Append(ui1, Printed("Result", result))
           msgs == Append(messages, ToolMessage(call.id, result))
       IN  /\ invocations' =
                IF invoked
                THEN Append(invocations,
                            [name |-> name, id |-> call.id,
                             args |-> parsed.keys \cup InternalParams(name)])
                ELSE invocations
           /\ IF call_ix < Len(tool_calls)
              THEN /\ call_ix' = call_ix + 1
                   /\ messages' = msgs
                   /\ ui' = ui2
                   /\ UNCHANGED <<history, pc, user_input, tools, accumulated_content,
                                  accumulated_tool_calls, iteration, tool_calls,
                                  display_args, streamVars, requests, request, last_end>>
              ELSE IF iteration + 1 < runtime_max_iterations
              THEN /\ pc' = "chat"
                   /\ iteration' = iteration + 1
                   /\ messages' = msgs
                   /\ tool_calls' = <<>>
                   /\ call_ix' = 0
                   /\ ui' = ui2
                   /\ RuntimeRequest(msgs, tools)
                   /\ UNCHANGED <<history, user_input, tools, accumulated_content,
                                  accumulated_tool_calls, display_args, streamVars,
                                  last_end>>
              ELSE RuntimeReturn(LimitReachedText, "ceiling", ui2)
    /\ UNCHANGED <<kind, capabilities, tool_schemas, transcript, inflight, turns,
                   at_start, saves>>

\* run leaves its loop ("/exit", "/quit" or end of input) and saves the history
RunExit ==
    /\ kind = "AgentRuntime"
    /\ pc = "idle"
    /\ pc' = "exited"
    /\ RuntimeWriteHistory(history)
    /\ UNCHANGED <<kind, capabilities, tool_schemas, history, user_input, messages, tools,
                   accumulated_content, accumulated_tool_calls, iteration, tool_calls,
                   call_ix, display_args, streamVars, ui, requests, request, invocations,
                   inflight, turns, at_start, last_end>>


(***************************************************************************)
(* The state after construction.                                           *)
(***************************************************************************)
EmptyFrame ==
    /\ user_input = <<>>
    /\ messages = <<>>
    /\ tools = NoTools
    /\ accumulated_content = <<>>
    /\ accumulated_tool_calls = <<>>
    /\ iteration = 0
    /\ tool_calls = <<>>
    /\ call_ix = 0
    /\ display_args = Unbound

NoStream ==
    /\ st = "none"
    /\ tool_calls_accumulator = <<>>
    /\ events = <<>>
    /\ nlines = 0
    /\ lines = <<>>
    /\ received = <<>>
    /\ emitted_at = <<>>

\* the agent's definition file: what manager.load_agent reads
AgentFile(caps, preserve) == [capabilities |-> caps, preserve_history |-> preserve]

\* The client of the first session, connected.  session counts the sessions
\* of the agent; saved, history and transcript are what the session before
\* left (whether it preserved its history, its last history, the file);
\* when the client closes during a turn, requests, started, fed, history and
\* transcript are set to what the session had done by then.
ClientOpen ==
    [open |-> TRUE, session |-> 1, saved |-> FALSE, requests |-> 0, started |-> 0,
     fed |-> 0, history |-> <<>>, transcript |-> NoFile, pending |-> <<>>]

NoPeer == [open |-> FALSE, same_agent |-> FALSE, history |-> <<>>, file |-> NoFile]

\* one session of an agent that keeps its history, its client connected
Alone ==
    /\ preserve_history = TRUE
    /\ stored = AgentFile(capabilities, TRUE)
    /\ client = ClientOpen
    /\ peer = NoPeer
    /\ writable = TRUE

NothingObserved ==
    /\ ui = <<>>
    /\ requests = 0
    /\ request = NoRequest
    /\ invocations = <<>>
    /\ inflight = {}
    /\ turns = 0
    /\ at_start = [history |-> <<>>, transcript |-> NoFile, saves |-> 0]
    /\ last_end = "none"
    /\ saves = 0
    /\ sent = 0

(***************************************************************************)
(* Spec: one session of either kind, made for an agent with no history     *)
(* file.  Web: the client sends user messages and the provider answers     *)
(* each upstream request line by line.  CLI: the user types lines and      *)
(* model.chat answers each call with a whole response.                     *)
(***************************************************************************)
AgentCapabilities == {<<>>, <<"file-operations">>}

UserTexts == {<<"hello">>}

\* the calls the provider asks for: (tool name, arguments text)
RequestedCalls ==
    {<<"read_file", <<"{", "path", "}">>>>,     \* an object
     <<"read_file", <<"[", "]">>>>,             \* valid JSON, not an object
     <<"read_file", <<"{", "path">>>>,          \* not JSON
     <<"exec_python", <<"{", "path", "}">>>>}

Init ==
    /\ kind \in {"AgentSession", "AgentRuntime"}
    /\ capabilities \in AgentCapabilities
    /\ tool_schemas = IF kind = "AgentSession" THEN LoadTools(capabilities)
                                               ELSE RuntimeLoadTools(capabilities)
    /\ history = <<>>
    /\ transcript = NoFile
    /\ pc = "idle"
    /\ EmptyFrame
    /\ NoStream
    /\ NothingObserved
    /\ Alone

Turn ==
    /\ turns < MaxTurns
    /\ client.open
    /\ \E text \in UserTexts : UserMessage(text)
    /\ UNCHANGED <<sent>>
    /\ UNCHANGED worldVars

\* A provider that answers a request with a bare "tool_calls" finish line (a
\* tool-call request without calls) is the adversary of the iteration
\* ceiling: from then on it answers every request of the turn that way.
Adversarial ==
    /\ messages # <<>>
    /\ messages[Len(messages)].role = "assistant"
    /\ messages[Len(messages)].tool_calls = <<>>

Cooperative == ~Adversarial /\ nlines < MaxLines

CallIndices == {0, 1}

ProviderText ==
    /\ Cooperative
    /\ sent < MaxPayload
    /\ DOMAIN tool_calls_accumulator = {}
    /\ SessionLine(ContentLine(<<"hi">>))
    /\ sent' = sent + 1
    /\ UNCHANGED worldVars

ProviderToolCall ==
    /\ Cooperative
    /\ sent < MaxPayload
    /\ \E index \in CallIndices \ DOMAIN tool_calls_accumulator, c \in RequestedCalls :
            SessionLine(ToolCallLine(<<Delta(TRUE, index, TRUE, ToString(sent + 1),
                                             TRUE, c[1], TRUE, c[2])>>))
    /\ sent' = sent + 1
    /\ UNCHANGED worldVars

ProviderEnds ==
    /\ Cooperative
    /\ sent < MaxPayload
    /\ DOMAIN tool_calls_accumulator = {}
    /\ SessionLine(Line("sentinel"))
    /\ sent' = sent + 1
    /\ UNCHANGED worldVars

ProviderFinish ==
    /\ \E l \in {FinishLine("tool_calls", FALSE)} \cup
                (IF Cooperative THEN {FinishLine("stop", TRUE)} ELSE {}) : SessionLine(l)
    /\ UNCHANGED sent
    /\ UNCHANGED worldVars

ProviderError ==
    /\ Cooperative
    /\ \E l \in {Line("error"), Line("badjson"), Line("timeout"), Line("reset")} :
            SessionLine(l)
    /\ UNCHANGED sent
    /\ UNCHANGED worldVars

ToolStep ==
    /\ ExecuteTool
    /\ UNCHANGED <<sent>>
    /\ UNCHANGED worldVars

ToolDone ==
    /\ \E o \in Outcomes : ToolReturns(o)
    /\ UNCHANGED <<sent>>
    /\ UNCHANGED worldVars

\* the CLI: the user types lines and model.chat answers each call at once
RuntimeTurn ==
    /\ turns < MaxTurns
    /\ \E text \in UserTexts : RunInput(text)
    /\ UNCHANGED <<sent>>
    /\ UNCHANGED worldVars

Call(id, name, arguments) ==
    [id |-> id, type |-> "function", function |-> [name |-> name, arguments |-> arguments]]

\* the call of a model that answers every call of a turn, from the first one,
\* with one more tool call
LoopCall == Call("loop", "get_context_info", <<"{", "}">>)

Looping ==
    \E i \in DOMAIN messages :
        /\ "tool_calls" \in DOMAIN messages[i]
        /\ messages[i].tool_calls = <<LoopCall>>

ModelAnswers ==
    /\ ~Looping
    /\ \E content \in {NoContent, Content(<<"hi">>)} :
            ModelChat([content |-> content, tool_calls |-> <<>>])
    /\ UNCHANGED sent
    /\ UNCHANGED worldVars

ModelAsksTools ==
    /\ ~Looping
    /\ \E n \in 1..(MaxPayload - sent) :
       \E cs \in [1..n -> RequestedCalls] :
            ModelChat([content |-> NoContent,
                       tool_calls |-> [j \in 1..n |->
                                          Call(ToString(sent + j), cs[j][1], cs[j][2])]])
            /\ sent' = sent + n
            /\ UNCHANGED worldVars

ModelLoops ==
    /\ iteration = 0 \/ Looping
    /\ ModelChat([content |-> NoContent, tool_calls |-> <<LoopCall>>])
    /\ UNCHANGED sent
    /\ UNCHANGED worldVars

ModelFails ==
    /\ ~Looping
    /\ ModelRaises
    /\ UNCHANGED sent
    /\ UNCHANGED worldVars

RuntimeToolStep ==
    /\ \E o \in (IF Looping THEN {"text"} ELSE Outcomes) : RuntimeExecuteTool(o)
    /\ UNCHANGED sent
    /\ UNCHANGED worldVars

RuntimeExit ==
    /\ RunExit
    /\ UNCHANGED sent
    /\ UNCHANGED worldVars

Next ==
    \/ Turn
    \/ ProviderText
    \/ ProviderToolCall
    \/ ProviderEnds
    \/ ProviderFinish
    \/ ProviderError
    \/ ToolStep
    \/ ToolDone
    \/ RuntimeTurn
    \/ ModelAnswers
    \/ ModelAsksTools
    \/ ModelLoops
    \/ ModelFails
    \/ RuntimeToolStep
    \/ RuntimeExit

Spec == Init /\ [][Next]_vars


(***************************************************************************)
(* Properties of a session (Spec).                                         *)
(***************************************************************************)
HasCalls(m) == "tool_calls" \in DOMAIN m

Executing == pc \in {"tool", "await_tool", "run_tool"}

LastCallsAt == Max({p \in DOMAIN messages : HasCalls(messages[p])})

\* call j of the assistant message at p has been through the loop body
Handled(p, j) == ~(Executing /\ p = LastCallsAt /\ j >= call_ix)

OnlyGrantedInvoked ==
    \A i \in DOMAIN invocations : invocations[i].name \in Range(tool_schemas)

\* C1 (as amended): a tool function is entered only for a name that is a key
\* of tool_schemas; a call that names a tool outside tool_schemas and whose
\* arguments parse as a JSON object gets the "not found" text as its
\* tool-role message, the message that follows the assistant message at the
\* call's position, and never enters a tool function.
C1_UngrantedObjectCallNotFound ==
    /\ OnlyGrantedInvoked
    /\ \A p \in DOMAIN messages :
          HasCalls(messages[p]) =>
             \A j \in DOMAIN messages[p].tool_calls :
                LET c == messages[p].tool_calls[j]
                IN  (/\ c.function.name \notin Range(tool_schemas)
                     /\ IsObjectText(c.function.arguments)
                     /\ Handled(p, j))
                    => /\ p + j <= Len(messages)
                       /\ messages[p + j] =
                             ToolMessage(c.id, NotFoundResult(c.function.name))
                       /\ \A i \in DOMAIN invocations : invocations[i].id # c.id

\* a catalog tool that is not granted was asked for with object arguments,
\* its "not found" message is in the window and no tool function was entered
C1_Witness ==
    /\ invocations = <<>>
    /\ \E p \in DOMAIN messages :
          /\ HasCalls(messages[p])
          /\ \E j \in DOMAIN messages[p].tool_calls :
                LET c == messages[p].tool_calls[j]
                IN  /\ c.function.name \in TOOL_SCHEMAS \ Range(tool_schemas)
                    /\ p + j <= Len(messages)
                    /\ messages[p + j] =
                          ToolMessage(c.id, NotFoundResult(c.function.name))

\* C1 (as stated): every handled call that names a catalog tool outside
\* tool_schemas gets the "not found" text as its tool-role message, whatever
\* its arguments are, and only granted tools are entered.
C1_UngrantedAlwaysNotFound ==
    /\ OnlyGrantedInvoked
    /\ \A p \in DOMAIN messages :
          HasCalls(messages[p]) =>
             \A j \in DOMAIN messages[p].tool_calls :
                LET c == messages[p].tool_calls[j]
                IN  (/\ c.function.name \in TOOL_SCHEMAS \ Range(tool_schemas)
                     /\ Handled(p, j))
                    => /\ p + j <= Len(messages)
                       /\ messages[p + j] =
                             ToolMessage(c.id, NotFoundResult(c.function.name))

\* C4 (as stated): a web session of an agent without capabilities never sends
\* a tool_start event.
C4_NoToolStartWithoutCapabilities ==
    (kind = "AgentSession" /\ capabilities = <<>>)
        => \A i \in DOMAIN ui : ui[i].type # "tool_start"

\* C5: a turn issues at most 10 upstream calls, in the web session and in
\* the CLI runtime: while a turn runs, the number of calls issued is the loop
\* variable plus one, and it never exceeds 10.
C5_AtMostTenUpstreamCalls ==
    /\ requests <= 10
    /\ pc \notin {"idle", "exited"} => requests = iteration + 1

\* a turn has ended at the ceiling after its tenth upstream call
C5_Witness ==
    /\ pc = "idle"
    /\ last_end = "ceiling"
    /\ requests = 10

ErrorEvents(u) == SelectSeq(u, LAMBDA m : m.type = "error")

\* C6: when handle_user_message ends at the iteration ceiling it has sent
\* exactly one error event, the last event of the turn, and the history, the
\* history file and the number of saves are what they were when the turn
\* began; the turn that follows a ceiling turn counts its upstream calls from
\* one and can use all 10.
C6_CeilingLeavesSessionUsable ==
    /\ (kind = "AgentSession" /\ pc = "idle" /\ last_end = "ceiling")
          => /\ Len(ErrorEvents(ui)) = 1
             /\ ui[Len(ui)] = ErrorMessage("Tool execution limit reached", FALSE)
             /\ history = at_start.history
             /\ transcript = at_start.transcript
             /\ saves = at_start.saves
    /\ (kind = "AgentSession" /\ pc # "idle" /\ last_end = "ceiling")
          => /\ requests = iteration + 1
             /\ requests <= 10
             /\ history = at_start.history

\* the first turn ended at the ceiling, nothing was persisted, and the turn
\* that followed it has issued its own tenth upstream call
C6_Witness ==
    /\ kind = "AgentSession"
    /\ turns = 2
    /\ pc = "stream"
    /\ last_end = "ceiling"
    /\ requests = 10
    /\ history = <<>>
    /\ saves = 0

\* C7 (as stated): a failure of a tool call never ends the turn: no turn is
\* left through the handler's exception path and no "Session error" event is
\* sent.
C7_ToolFailureNeverAbortsTurn ==
    /\ last_end # "exception"
    /\ \A i \in DOMAIN ui : ui[i].type = "error" => ui[i].message # "Session error"

\* C8 (as stated): the pass of the tool loop over a call whose arguments do
\* not parse as JSON enters no tool function and appends the "Invalid JSON
\* arguments" text, with the call's id, as a tool-role message to the window.
C8_UnparsableArgumentsGetToolMessage ==
    [][(/\ pc = "tool"
        /\ JsonLoads(tool_calls[call_ix].function.arguments).kind = "error")
       => /\ invocations' = invocations
          /\ messages' = Append(messages,
                                ToolMessage(tool_calls[call_ix].id, InvalidJsonResult))]_vars

\* the stream index under which the fragments of the call with this id came
StreamIndex(id) ==
    DeltaIndex(received[CHOOSE i \in DOMAIN received :
                            received[i].hasId /\ received[i].id = id])

\* C9: the calls of a tool_calls event are in ascending order of stream
\* index; while call number call_ix is being executed the tool messages of
\* the calls before it are the last messages of the window, in order, no
\* call after it has entered its tool function, and at most the current
\* call's function is running; outside the await nothing is running.
C9_CallsSequentialInIndexOrder ==
    /\ pc \in {"tool", "await_tool"} =>
          /\ \A j \in 1..(Len(tool_calls) - 1) :
                StreamIndex(tool_calls[j].id) < StreamIndex(tool_calls[j + 1].id)
          /\ \A j \in 1..(call_ix - 1) :
                LET m == messages[Len(messages) - (call_ix - 1) + j]
                IN  m.role = "tool" /\ m.tool_call_id = tool_calls[j].id
          /\ \A i \in DOMAIN invocations :
                \A j \in DOMAIN tool_calls :
                    invocations[i].id = tool_calls[j].id =>
                        j < call_ix \/ (j = call_ix /\ pc = "await_tool")
          /\ inflight = IF pc = "await_tool" THEN {tool_calls[call_ix].id} ELSE {}
    /\ pc \notin {"tool", "await_tool"} => inflight = {}
    /\ Cardinality(inflight) <= 1

\* the fragment of index 1 arrived before the fragment of index 0, the call
\* of index 0 has run and returned, and the call of index 1 is running
C9_Witness ==
    /\ pc = "await_tool"
    /\ call_ix = 2
    /\ Len(received) = 2
    /\ DeltaIndex(received[1]) = 1
    /\ DeltaIndex(received[2]) = 0
    /\ Len(invocations) = 2
    /\ invocations[1].id = tool_calls[1].id

\* C15: handle_user_message does not return on the error event of a bad-JSON
\* line: that error message is never the last thing a finished turn sent.
C15_MalformedFragmentDoesNotEndTurn ==
    (kind = "AgentSession" /\ pc = "idle" /\ ui # <<>>)
        => ~(ui[Len(ui)].type = "error"
              /\ ui[Len(ui)].message = "Failed to parse SSE chunk")

\* C16: the error message sent for a transport timeout or a connection reset
\* carries recoverable false.
C16_TransportErrorNotRecoverable ==
    \A k \in DOMAIN ui :
        (ui[k].type = "error" /\ ui[k].message \in {"Request timed out", "Connection error"})
            => ui[k].recoverable = FALSE

LastOfType(u, t) ==
    IF \E k \in DOMAIN u : u[k].type = t
    THEN CHOOSE k \in DOMAIN u : u[k].type = t /\ \A j \in DOMAIN u : u[j].type = t => j <= k
    ELSE 0

\* the text streamed to the client after event number k
StreamedAfter(u, k) ==
    LET chunks == SelectSeq(SubSeq(u, k + 1, Len(u)),
                            LAMBDA m : m.type = "stream_chunk" /\ ~m.is_complete)
    IN  Flatten([i \in DOMAIN chunks |-> chunks[i].content])

C21_MessageWindow ==
    (kind = "AgentSession" /\ pc \in {"stream", "tool", "await_tool"}) =>
        LET m == request.messages
            k == IF Len(history) <= HistoryWindow THEN Len(history) ELSE HistoryWindow
        IN  /\ Len(m) >= k + 2
            /\ m[1].role = "system"
            /\ \A i \in 2..Len(m) : m[i].role # "system"
            /\ \A i \in 1..k : m[1 + i] = HistoryMessage(history[Len(history) - k + i])
            /\ m[k + 2] = [role |-> "user", content |-> Content(user_input)]
            /\ \A i \in (k + 3)..Len(m) : m[i].role \in {"assistant", "tool"}

ToolEvents(u) == SelectSeq(u, LAMBDA m : m.type \in {"tool_start", "tool_result"})

\* C23: the tool events of a web turn come in pairs: each tool_result follows
\* the tool_start of the same tool_name, and each tool_start follows a
\* tool_result or is the first tool event of the turn.
C23_ToolStartThenToolResult ==
    kind = "AgentSession" =>
        LET t == ToolEvents(ui)
        IN  \A k \in DOMAIN t :
                IF t[k].type = "tool_result"
                THEN k > 1 /\ t[k - 1].type = "tool_start"
                           /\ t[k - 1].tool_name = t[k].tool_name
                ELSE k = 1 \/ t[k - 1].type = "tool_result"

(***************************************************************************)
(* SpecTools: the construction of a session object.  An agent with any     *)
(* capability list of at most MaxCaps names, known or not, is given to     *)
(* AgentSession(...) or to AgentRuntime(...).                              *)
(***************************************************************************)
UnknownCapability == "time-travel"

\* AgentSession.__init__ for the agent object given
NewSession ==
    /\ kind = "AgentSession"
    /\ pc = "new"
    /\ pc' = "idle"
    /\ tool_schemas' = LoadTools(capabilities)
    /\ history' = LoadHistory(preserve_history, transcript)
    /\ UNCHANGED <<kind, capabilities, transcript, user_input, messages, tools,
                   accumulated_content, accumulated_tool_calls, iteration, tool_calls,
                   call_ix, display_args, streamVars, obsVars, worldVars>>

\* AgentRuntime.__init__ for the agent object given
NewRuntime ==
    /\ kind = "AgentRuntime"
    /\ pc = "new"
    /\ pc' = "idle"
    /\ tool_schemas' = RuntimeLoadTools(capabilities)
    /\ history' = RuntimeLoadHistory(preserve_history, transcript)
    /\ UNCHANGED <<kind, capabilities, transcript, user_input, messages, tools,
                   accumulated_content, accumulated_tool_calls, iteration, tool_calls,
                   call_ix, display_args, streamVars, obsVars, worldVars>>

ToolsInit ==
    /\ kind \in {"AgentSession", "AgentRuntime"}
    /\ capabilities \in SeqsUpTo(CapabilityNames \cup {UnknownCapability}, MaxCaps)
    /\ tool_schemas = <<>>
    /\ history = <<>>
    /\ transcript = NoFile
    /\ pc = "new"
    /\ EmptyFrame
    /\ NoStream
    /\ NothingObserved
    /\ Alone

ToolsNext ==
    \/ NewSession
    \/ NewRuntime

SpecTools == ToolsInit /\ [][ToolsNext]_vars

\* the tools of the capabilities of the list that are in CAPABILITIES, as far
\* as they are in TOOL_SCHEMAS
ToolsOfKnownCapabilities(caps) ==
    {t \in TOOL_SCHEMAS :
        \E i \in DOMAIN caps :
            /\ caps[i] \in CapabilityNames
            /\ t \in Range(CAPABILITIES[caps[i]].tools)}

C3_NoCapabilitiesNoTools ==
    (kind = "AgentRuntime" /\ pc = "idle" /\ capabilities = <<>>)
        => Len(tool_schemas) = 0

(***************************************************************************)
(* SpecStream: one chat_stream generator read to its end by a consumer     *)
(* that takes every event.  The provider sends any lines: tool-call        *)
(* fragments for two indices in any order and split, text, finish lines,   *)
(* lines that are not chunks.                                              *)
(***************************************************************************)
\* one pass of `async for line in response.aiter_lines()`
StreamRead(l) ==
    /\ pc = "consume"
    /\ st = "open"
    /\ LET r == ReadLine(tool_calls_accumulator, l)
       IN  StreamAfter(l, r, r.events)
    /\ UNCHANGED <<sessionVars, frameVars, obsVars, worldVars>>

\* chat_stream up to the loop over the lines
StreamConnect(api_key, status) ==
    /\ pc = "consume"
    /\ st = "connecting"
    /\ LET r == Respond(api_key, status)
       IN  /\ st' = r.st
           /\ events' = r.events
           /\ emitted_at' = [i \in DOMAIN r.events |-> 0]
    /\ UNCHANGED <<sessionVars, frameVars, obsVars, worldVars, tool_calls_accumulator,
                   nlines, lines, received>>

HeadFragment == <<"{">>

TailFragment == <<"path", "}">>

\* a delta that carries only an arguments fragment
Fragment(index, frag) == Delta(TRUE, index, FALSE, "", FALSE, "", TRUE, frag)

\* a delta that carries a whole call
WholeCall(index) ==
    Delta(TRUE, index, TRUE, ToString(index), TRUE, "read_file", TRUE,
          HeadFragment \o TailFragment)

StreamDeltas ==
    {Fragment(i, f) : i \in CallIndices, f \in {HeadFragment, TailFragment}}
    \cup {WholeCall(i) : i \in CallIndices}
    \cup {Delta(FALSE, 0, FALSE, "", FALSE, "", TRUE, TailFragment)}

StreamInit ==
    /\ kind = "AgentSession"
    /\ capabilities = <<>>
    /\ tool_schemas = LoadTools(capabilities)
    /\ history = <<>>
    /\ transcript = NoFile
    /\ pc = "consume"
    /\ EmptyFrame
    /\ st = "open"
    /\ tool_calls_accumulator = <<>>
    /\ events = <<>>
    /\ nlines = 0
    /\ lines = <<>>
    /\ received = <<>>
    /\ emitted_at = <<>>
    /\ NothingObserved
    /\ Alone

StreamFragment ==
    /\ nlines < MaxLines
    /\ \E d \in StreamDeltas : StreamRead(ToolCallLine(<<d>>))

StreamFragments ==
    /\ nlines < MaxLines
    /\ \E i \in CallIndices, j \in CallIndices :
            StreamRead(ToolCallLine(<<Fragment(i, HeadFragment),
                                      Fragment(j, HeadFragment)>>))

StreamText ==
    /\ nlines < MaxLines
    /\ StreamRead(ContentLine(<<"hi">>))

StreamFinish ==
    /\ nlines < MaxLines
    /\ \E l \in {FinishLine("tool_calls", FALSE), FinishLine("stop", TRUE)} : StreamRead(l)

StreamOther ==
    /\ nlines < MaxLines
    /\ \E k \in {"blank", "other", "badjson", "malformed"} : StreamRead(Line(k))

StreamEnds ==
    /\ nlines < MaxLines
    /\ \E k \in {"sentinel", "error"} : StreamRead(Line(k))

StreamNext ==
    \/ StreamFragment
    \/ StreamFragments
    \/ StreamText
    \/ StreamFinish
    \/ StreamOther
    \/ StreamEnds

SpecStream == StreamInit /\ [][StreamNext]_vars

\* the argument fragments received for an index, in arrival order, joined
FragmentsJoined(recv, index) ==
    LET mine == SelectSeq(recv, LAMBDA d : DeltaIndex(d) = index /\ d.hasArgs)
    IN  Flatten([k \in DOMAIN mine |-> mine[k].arguments])

\* C10: in every tool_calls event there is one call per index received so
\* far, in ascending order of index, and the arguments of each call are the
\* fragments received for its index up to that event, joined in arrival
\* order.
C10_ArgumentsAreFragmentsInArrivalOrder ==
    \A k \in DOMAIN events :
        events[k].type = "tool_calls" =>
            LET recv == SubSeq(received, 1, emitted_at[k])
                indices == Ascending({DeltaIndex(recv[i]) : i \in DOMAIN recv})
            IN  /\ Len(events[k].calls) = Len(indices)
                /\ \A j \in DOMAIN indices :
                      events[k].calls[j].function.arguments =
                          FragmentsJoined(recv, indices[j])

\* the fragments of two calls came interleaved, index 0 split in two around
\* those of index 1, and the event carries both texts whole
C10_Witness ==
    \E k \in DOMAIN events :
        /\ events[k].type = "tool_calls"
        /\ emitted_at[k] = 4
        /\ DeltaIndex(received[1]) = 0
        /\ DeltaIndex(received[2]) = 1
        /\ DeltaIndex(received[3]) = 1
        /\ DeltaIndex(received[4]) = 0
        /\ Len(events[k].calls) = 2
        /\ events[k].calls[1].function.arguments = HeadFragment \o TailFragment
        /\ events[k].calls[2].function.arguments = HeadFragment \o TailFragment


(***************************************************************************)
(* SpecLines: chat_stream from the request on, its caller taking every     *)
(* event: the connection (API key, HTTP status), then the lines of the     *)
(* response, each one of the kinds ReadLine knows, or a transport failure  *)
(* in place of a line.                                                     *)
(***************************************************************************)
LinesInit ==
    /\ kind = "AgentSession"
    /\ capabilities = <<>>
    /\ tool_schemas = LoadTools(capabilities)
    /\ history = <<>>
    /\ transcript = NoFile
    /\ pc = "consume"
    /\ EmptyFrame
    /\ st = "connecting"
    /\ tool_calls_accumulator = <<>>
    /\ events = <<>>
    /\ nlines = 0
    /\ lines = <<>>
    /\ received = <<>>
    /\ emitted_at = <<>>
    /\ NothingObserved
    /\ Alone

LinesOpens ==
    \E api_key \in BOOLEAN, status \in {200, 500} : StreamConnect(api_key, status)

LinesChunk ==
    /\ nlines < MaxLines
    /\ \E l \in {ContentLine(<<"hi">>), ToolCallLine(<<WholeCall(0)>>)} : StreamRead(l)

LinesFinish ==
    /\ nlines < MaxLines
    /\ \E l \in {FinishLine("tool_calls", FALSE), FinishLine("stop", TRUE),
                FinishLine("stop", FALSE), UsageLine} : StreamRead(l)

LinesNoise ==
    /\ nlines < MaxLines
    /\ \E k \in {"blank", "badjson", "malformed"} : StreamRead(Line(k))

LinesEnd ==
    /\ nlines < MaxLines
    /\ \E k \in {"sentinel", "error"} : StreamRead(Line(k))

LinesBreak ==
    /\ nlines < MaxLines
    /\ \E k \in {"timeout", "reset", "failure"} : StreamRead(Line(k))

LinesNext ==
    \/ LinesOpens
    \/ LinesChunk
    \/ LinesFinish
    \/ LinesNoise
    \/ LinesEnd
    \/ LinesBreak

SpecLines == LinesInit /\ [][LinesNext]_vars

\* C11: an event of type done is the last event of its request.
C11_DoneIsTerminal ==
    \A k \in DOMAIN events : events[k].type = "done" => k = Len(events)

\* C12: when the provider sent its usage totals, in the finishing fragment or
\* in a later one, every done event of the request carries them.
C12_DoneCarriesProviderUsage ==
    \A k \in DOMAIN events :
        (events[k].type = "done" /\ \E j \in DOMAIN lines : lines[j].hasUsage)
            => events[k].usage = ProviderUsage

\* C13: a status other than 200 gives one error event and nothing else, no
\* line being read; the error event of an upstream error object is the last
\* event, and the stream is closed.
C13_FatalUpstreamFailureIsTerminal ==
    /\ \A k \in DOMAIN events :
          events[k] = ErrorEvent("OpenRouter API error")
              => Len(events) = 1 /\ lines = <<>> /\ st = "closed"
    /\ \A k \in DOMAIN events :
          events[k] = ErrorEvent("upstream error") => k = Len(events) /\ st = "closed"
    /\ (lines # <<>> /\ lines[Len(lines)].kind = "error")
          => events # <<>> /\ events[Len(events)] = ErrorEvent("upstream error")

\* content was streamed, then the upstream error object came
C13_Witness ==
    /\ Len(lines) = 3
    /\ lines[3].kind = "error"
    /\ Len(events) = 3
    /\ events[1].type = "content"
    /\ events[2].type = "content"
    /\ events[3] = ErrorEvent("upstream error")
    /\ st = "closed"

\* the generator run over a sequence of lines from state r
RECURSIVE RunLines(_, _)
RunLines(ls, r) ==
    IF ls = <<>> \/ r.st # "open"
    THEN r
    ELSE LET n == ReadLine(r.acc, Head(ls))
         IN  RunLines(Tail(ls), [events |-> r.events \o n.events, acc |-> n.acc,
                                 st |-> n.st])

Connected == [events |-> <<>>, acc |-> <<>>, st |-> "open"]

IsParseError(e) == e = ErrorEvent("Failed to parse SSE chunk")

\* C14: each bad-JSON line gives one error event, and apart from these
\* events the generator is where it would be had the bad lines not been in
\* the response: same events in the same order, same accumulated calls,
\* still reading or not.
C14_BadJsonLineIsSkipped ==
    lines # <<>> =>
        LET good == SelectSeq(lines, LAMBDA l : l.kind # "badjson")
            bad == SelectSeq(lines, LAMBDA l : l.kind = "badjson")
            r == RunLines(good, Connected)
        IN  /\ Len(SelectSeq(events, IsParseError)) = Len(bad)
            /\ SelectSeq(events, LAMBDA e : ~IsParseError(e)) = r.events
            /\ tool_calls_accumulator = r.acc
            /\ st = r.st

\* a bad line between two content fragments, then the finish
C14_Witness ==
    /\ Len(lines) = 4
    /\ lines[1].kind = "chunk"
    /\ lines[2].kind = "badjson"
    /\ events = <<ContentEvent(<<"hi">>), ErrorEvent("Failed to parse SSE chunk"),
                 ContentEvent(<<"hi">>), DoneEvent("stop", ProviderUsage)>>


(***************************************************************************)
(* server.py: websocket_chat around one session, and the commands of       *)
(* AgentRuntime.run.  Each action is one pass of the server's message loop *)
(* (or the code before or after it) that is not handle_user_message.       *)
(***************************************************************************)
\* websocket_chat from accept() to the message loop: manager.load_agent and
\* AgentSession(agent, manager, websocket), nothing is sent to the client
Connect(exists) ==
    /\ kind = "AgentSession"
    /\ pc = "accept"
    /\ IF exists
       THEN /\ pc' = "idle"
            /\ ui' = ui
            /\ capabilities' = stored.capabilities
            /\ preserve_history' = stored.preserve_history
            /\ tool_schemas' = LoadTools(stored.capabilities)
            /\ history' = LoadHistory(stored.preserve_history, transcript)
       ELSE /\ pc' = "closed"
            /\ ui' = Append(ui, ErrorMessage("Agent not found", FALSE))
            /\ UNCHANGED <<capabilities, preserve_history, tool_schemas, history>>
    /\ UNCHANGED <<kind, transcript, user_input, messages, tools, accumulated_content,
                   accumulated_tool_calls, iteration, tool_calls, call_ix, display_args,
                   streamVars, requests, request, invocations, inflight, turns, at_start,
                   last_end, saves>>

\* {"type": "clear_history"}: session.clear_history(), then the info message
\* clear_history handled without waiting for the running handler
ClearHistory_MidTurn ==
    /\ kind = "AgentSession"
    /\ history' = <<>>
    /\ WriteHistory(<<>>)
    /\ ui' = Append(ui, InfoMessage("History cleared"))
    /\ turns' = turns + 1
    /\ UNCHANGED <<kind, capabilities, tool_schemas, frameVars, streamVars, requests,
                   request, invocations, inflight, at_start, last_end>>

ClearHistory ==
    /\ kind = "AgentSession"
    /\ pc = "idle"
    /\ history' = <<>>
    /\ WriteHistory(<<>>)
    /\ ui' = Append(ui, InfoMessage("History cleared"))
    /\ turns' = turns + 1
    /\ UNCHANGED <<kind, capabilities, tool_schemas, frameVars, streamVars, requests,
                   request, invocations, inflight, at_start, last_end>>

\* {"type": "get_capabilities"}
GetCapabilities ==
    /\ kind = "AgentSession"
    /\ pc = "idle"
    /\ ui' = Append(ui, CapabilitiesInfo(capabilities, tool_schemas))
    /\ turns' = turns + 1
    /\ UNCHANGED <<sessionVars, frameVars, streamVars, requests, request, invocations,
                   inflight, at_start, last_end, saves>>

\* a message of any other type
UnknownMessageType ==
    /\ kind = "AgentSession"
    /\ pc = "idle"
    /\ ui' = Append(ui, ErrorMessage("Unknown message type", TRUE))
    /\ turns' = turns + 1
    /\ UNCHANGED <<sessionVars, frameVars, streamVars, requests, request, invocations,
                   inflight, at_start, last_end, saves>>

\* receive_json raised WebSocketDisconnect: the history is saved
Disconnect ==
    /\ kind = "AgentSession"
    /\ pc = "idle"
    /\ pc' = "closed"
    /\ WriteHistory(history)
    /\ UNCHANGED <<kind, capabilities, tool_schemas, history, user_input, messages, tools,
                   accumulated_content, accumulated_tool_calls, iteration, tool_calls,
                   call_ix, display_args, streamVars, ui, requests, request, invocations,
                   inflight, turns, at_start, last_end>>

\* receive_json raised anything else (a frame that is not JSON)
ServerException ==
    /\ kind = "AgentSession"
    /\ pc = "idle"
    /\ pc' = "closed"
    /\ ui' = Append(ui, ErrorMessage("Server error", FALSE))
    /\ UNCHANGED <<sessionVars, user_input, messages, tools, accumulated_content,
                   accumulated_tool_calls, iteration, tool_calls, call_ix, display_args,
                   streamVars, requests, request, invocations, inflight, turns, at_start,
                   last_end, saves>>

\* _handle_command("/clear")
RuntimeClear ==
    /\ kind = "AgentRuntime"
    /\ pc = "idle"
    /\ history' = <<>>
    /\ ui' = Append(ui, Printed("command", <<"History cleared.">>))
    /\ turns' = turns + 1
    /\ UNCHANGED <<kind, capabilities, tool_schemas, transcript, frameVars, streamVars,
                   requests, request, invocations, inflight, at_start, last_end, saves>>

(***************************************************************************)
(* SpecServer: one connection to the server, or one run of the CLI, for an *)
(* agent without capabilities: the client sends messages of every type in  *)
(* any order, the provider behaves as in Spec, and every tool the model    *)
(* asks for is one the agent is not granted.                               *)
(***************************************************************************)
ServerInit ==
    /\ kind \in {"AgentSession", "AgentRuntime"}
    /\ capabilities = <<>>
    /\ tool_schemas = IF kind = "AgentSession" THEN LoadTools(capabilities)
                                               ELSE RuntimeLoadTools(capabilities)
    /\ history = <<>>
    /\ transcript = NoFile
    /\ pc = IF kind = "AgentSession" THEN "accept" ELSE "idle"
    /\ EmptyFrame
    /\ NoStream
    /\ NothingObserved
    /\ Alone

ServerAccept ==
    /\ \E exists \in BOOLEAN : Connect(exists)
    /\ UNCHANGED <<sent, stored, client, peer, writable>>

\* the next message of the client, or the next command typed
ServerMessage ==
    /\ turns < MaxTurns
    /\ \/ ClearHistory
       \/ GetCapabilities
       \/ UnknownMessageType
       \/ RuntimeClear
    /\ UNCHANGED sent
    /\ UNCHANGED worldVars

ServerEnds ==
    /\ \/ Disconnect
       \/ ServerException
    /\ UNCHANGED sent
    /\ UNCHANGED worldVars

ServerNext ==
    \/ ServerAccept
    \/ ServerMessage
    \/ ServerEnds
    \/ Turn
    \/ ProviderText
    \/ ProviderToolCall
    \/ ProviderEnds
    \/ ProviderFinish
    \/ ProviderError
    \/ ToolStep
    \/ RuntimeTurn
    \/ ModelAnswers
    \/ ModelAsksTools
    \/ ModelLoops
    \/ ModelFails
    \/ RuntimeToolStep
    \/ RuntimeExit

SpecServer == ServerInit /\ [][ServerNext]_vars

\* C17: every message of type error sent over the WebSocket has a field
\* recoverable, and its value is a boolean.
C17_EveryErrorSaysWhetherRecoverable ==
    kind = "AgentSession" =>
        \A k \in DOMAIN ui :
            ui[k].type = "error"
                => "recoverable" \in DOMAIN ui[k] /\ ui[k].recoverable \in BOOLEAN

\* an exception in the handler, then a message of unknown type, then an
\* exception in the server's loop: three error messages, each with its flag
C17_Witness ==
    /\ kind = "AgentSession"
    /\ pc = "closed"
    /\ Len(ui) >= 3
    /\ ui[Len(ui) - 2] = ErrorMessage("Session error", FALSE)
    /\ ui[Len(ui) - 1] = ErrorMessage("Unknown message type", TRUE)
    /\ ui[Len(ui)] = ErrorMessage("Server error", FALSE)

IsPrefix(s, t) == Len(s) <= Len(t) /\ SubSeq(t, 1, Len(s)) = s

\* the clear of either kind of session
IsClear == pc = "idle" /\ pc' = "idle" /\ history' = <<>>

\* the CLI takes back the user entry of the turn whose model call failed
IsRollback ==
    /\ kind = "AgentRuntime"
    /\ pc = "chat"
    /\ last_end' = "error"
    /\ history = Append(history', RuntimeEntry("user", user_input))
    /\ history' = at_start.history

ModifyAgent(file, updates, caps) ==
    IF "capabilities" \in updates THEN [file EXCEPT !.capabilities = caps] ELSE file

\* the agent file after the tool function of a call has been run
AfterTool(file, call, caps) ==
    LET parsed == JsonLoads(call.function.arguments)
    IN  IF call.function.name = "modify_agent" /\ "name" \in parsed.keys
        THEN ModifyAgent(file, parsed.keys \ {"name"}, caps)
        ELSE file

\* cli.py app: load_agent, the --no-history override of the agent object's
\* config (the file is not written), AgentRuntime(agent, manager)
RunAgent(no_history) ==
    /\ kind = "AgentRuntime"
    /\ pc = "start"
    /\ pc' = "idle"
    /\ LET preserve == stored.preserve_history /\ ~no_history
       IN  /\ preserve_history' = preserve
           /\ capabilities' = stored.capabilities
           /\ tool_schemas' = RuntimeLoadTools(stored.capabilities)
           /\ history' = RuntimeLoadHistory(preserve, transcript)
    /\ UNCHANGED <<kind, transcript, user_input, messages, tools, accumulated_content,
                   accumulated_tool_calls, iteration, tool_calls, call_ix, display_args,
                   streamVars, ui, requests, request, invocations, inflight, turns,
                   at_start, last_end, saves>>

\* the value of capabilities in the arguments of modify_agent
UpdatedCapabilities == <<"file-operations">>

ModifyCall == <<"modify_agent", <<"{", "name", "capabilities", "}">>>>

\* the calls of modify_agent the model asks for: the one above, and one with
\* an argument under a name that starts with an underscore
ModifyCalls == {ModifyCall, <<"modify_agent", <<"{", "name", "_runtime", "}">>>>}

\* transcripts of an earlier session of the web server and of the CLI
OldTranscripts ==
    {SaveHistory(DoneEntries(<<"hello">>, <<"hi">>, <<>>, ProviderUsage)),
     RuntimeSaveHistory(<<RuntimeEntry("user", <<"hello">>),
                          RuntimeEntry("agent", <<"hi">>)>>)}

LifeInit ==
    /\ kind \in {"AgentSession", "AgentRuntime"}
    /\ capabilities = <<>>
    /\ tool_schemas = <<>>
    /\ history = <<>>
    /\ transcript \in {NoFile} \cup OldTranscripts
    /\ pc = IF kind = "AgentSession" THEN "accept" ELSE "start"
    /\ EmptyFrame
    /\ NoStream
    /\ NothingObserved
    /\ preserve_history = TRUE
    /\ stored \in {AgentFile(<<"agent-creation">>, p) : p \in BOOLEAN}
    /\ client = [ClientOpen EXCEPT !.transcript = transcript]
    /\ peer = NoPeer
    /\ writable = TRUE

\* a connection for the agent, whose file is there
LifeAccept ==
    /\ Connect(TRUE)
    /\ UNCHANGED <<sent, stored, client, peer, writable>>

LifeStarts ==
    /\ \E no_history \in BOOLEAN : RunAgent(no_history)
    /\ UNCHANGED <<sent, stored, client, peer, writable>>

ProviderAsksModify ==
    /\ Cooperative
    /\ sent < MaxPayload
    /\ DOMAIN tool_calls_accumulator = {}
    /\ \E c \in ModifyCalls :
            SessionLine(ToolCallLine(<<Delta(TRUE, 0, TRUE, ToString(sent + 1), TRUE,
                                             c[1], TRUE, c[2])>>))
    /\ sent' = sent + 1
    /\ UNCHANGED worldVars

\* the finish line that fits what the provider has sent
ProviderCloses ==
    /\ Cooperative
    /\ SessionLine(IF DOMAIN tool_calls_accumulator = {}
                   THEN FinishLine("stop", TRUE)
                   ELSE FinishLine("tool_calls", FALSE))
    /\ UNCHANGED sent
    /\ UNCHANGED worldVars

\* the tool function returns; modify_agent has saved the agent file
AgentToolDone ==
    /\ pc = "await_tool"
    /\ stored' = AfterTool(stored, tool_calls[call_ix], UpdatedCapabilities)
    /\ ToolReturns("text")
    /\ UNCHANGED <<sent, preserve_history, client, peer, writable>>

ModelAsksModify ==
    /\ ~Looping
    /\ sent < MaxPayload
    /\ \E c \in ModifyCalls :
            ModelChat([content |-> NoContent,
                       tool_calls |-> <<Call(ToString(sent + 1), c[1], c[2])>>])
    /\ sent' = sent + 1
    /\ UNCHANGED worldVars

RuntimeAgentToolStep ==
    /\ pc = "run_tool"
    /\ stored' = IF RuntimeGranted(tool_calls[call_ix].function.name)
                 THEN AfterTool(stored, tool_calls[call_ix], UpdatedCapabilities)
                 ELSE stored
    /\ RuntimeExecuteTool("text")
    /\ UNCHANGED <<sent, preserve_history, client, peer, writable>>

\* the next connection to the server, or the next run of the CLI, for the
\* same agent; what the session before left is kept in client
NextSession ==
    /\ pc \in {"closed", "exited"}
    /\ client.session < MaxSessions
    /\ pc' = IF kind = "AgentSession" THEN "accept" ELSE "start"
    /\ client' = [client EXCEPT !.session = @ + 1, !.saved = preserve_history,
                                !.history = history, !.transcript = transcript]
    /\ ui' = <<>>
    /\ requests' = 0
    /\ request' = NoRequest
    /\ invocations' = <<>>
    /\ inflight' = {}
    /\ last_end' = "none"
    /\ UNCHANGED <<sessionVars, user_input, messages, tools, accumulated_content,
                   accumulated_tool_calls, iteration, tool_calls, call_ix, display_args,
                   streamVars, turns, at_start, saves, sent, preserve_history, stored,
                   peer, writable>>

\* the client has the history cleared, or the user types /clear
LifeClears ==
    /\ turns < MaxTurns
    /\ \/ ClearHistory
       \/ RuntimeClear
    /\ UNCHANGED sent
    /\ UNCHANGED worldVars

LifeNext ==
    \/ LifeAccept
    \/ LifeStarts
    \/ LifeClears
    \/ ServerEnds
    \/ Turn
    \/ ProviderText
    \/ ProviderAsksModify
    \/ ProviderCloses
    \/ ToolStep
    \/ AgentToolDone
    \/ RuntimeTurn
    \/ ModelAnswers
    \/ ModelAsksModify
    \/ RuntimeAgentToolStep
    \/ RuntimeExit
    \/ NextSession

SpecLife == LifeInit /\ [][LifeNext]_vars

\* a session that has just been made and has not been used
Fresh == pc = "idle" /\ ui = <<>> /\ last_end = "none"

\* the same roles, texts, tool calls and usage, entry by entry, as read with
\* the defaults of _load_history
SameEntries(a, b) ==
    /\ Len(a) = Len(b)
    /\ \A i \in DOMAIN a :
            /\ a[i].role = b[i].role
            /\ a[i].message = b[i].message
            /\ ItemToolCalls(a[i]) = ItemToolCalls(b[i])
            /\ ItemUsage(a[i]) = ItemUsage(b[i])

\* C27: a history saved by a session and loaded by the next session of the
\* agent is the same ordered list: the same roles, texts, tool-call metadata
\* and usage.
C27_SaveThenLoadIsIdentity ==
    (Fresh /\ client.session > 1 /\ client.saved /\ preserve_history) =>
        SameEntries(history, client.history)

C27_Witness ==
    /\ Fresh
    /\ client.session > 1
    /\ client.saved
    /\ preserve_history
    /\ Len(history) >= 2
    /\ \E i \in DOMAIN history :
            /\ history[i].role = "agent"
            /\ ItemToolCalls(history[i]) # <<>>
            /\ ItemUsage(history[i]) = ProviderUsage

\* C28: a session whose agent has preserve_history false starts with an empty
\* history whatever is on disk, and nothing it does (a completed turn, a
\* clear, the save at exit or at disconnect) creates or changes the
\* transcript file.
C28_NoPreserveNoTranscript ==
    ~preserve_history =>
        /\ Fresh => history = <<>>
        /\ pc \notin {"accept", "start"} => transcript = client.transcript

C28_Witness ==
    /\ ~preserve_history
    /\ pc \in {"closed", "exited"}
    /\ transcript \in OldTranscripts
    /\ Len(history) >= 2

\* C30: the map of granted tools is made when the session is made, from the
\* agent file as it is then, and no step of the session changes it, also not
\* a tool that rewrites the session's own agent.
C30_ToolsFixedAtCreation ==
    [][/\ pc \notin {"accept", "start"} => tool_schemas' = tool_schemas
       /\ (pc \in {"accept", "start"} /\ pc' = "idle") =>
                tool_schemas' = IF kind = "AgentSession"
                                THEN LoadTools(stored.capabilities)
                                ELSE RuntimeLoadTools(stored.capabilities)]_vars

C30_Witness ==
    /\ pc \in {"stream", "chat"}
    /\ \E i \in DOMAIN invocations : invocations[i].name = "modify_agent"
    /\ stored.capabilities = UpdatedCapabilities
    /\ "modify_agent" \in Range(tool_schemas)

(***************************************************************************)
(* SpecShared: two connections at the same time, each with its own         *)
(* AgentSession object, for the same agent name or for two names.  The     *)
(* session of the model is as everywhere; the other one, the peer, is kept *)
(* in the record peer and moves by whole operations, which the event loop  *)
(* does not interleave: its construction, a completed turn (the two        *)
(* appends and the save of the done branch have no await between them),    *)
(* and the save of the disconnect handler.                                 *)
(***************************************************************************)
\* every session writes the one file
PeerWrites_OneFile(h, open) ==
    /\ transcript' = SaveHistory(h)
    /\ peer' = [peer EXCEPT !.history = h, !.open = open]

\* _save_history of the peer: history_dir / f"{agent.name}.json" is the
\* session's transcript if the peer is for the same agent name
PeerWrites(h, open) ==
    IF peer.same_agent
    THEN /\ transcript' = SaveHistory(h)
         /\ peer' = [peer EXCEPT !.history = h, !.open = open]
    ELSE /\ peer' = [peer EXCEPT !.history = h, !.open = open, !.file = SaveHistory(h)]
         /\ UNCHANGED transcript

\* AgentSession(agent, manager, websocket) of the peer: _load_history
PeerConnects(same) ==
    /\ peer = NoPeer
    /\ peer' = [open |-> TRUE, same_agent |-> same,
                history |-> LoadHistory(TRUE, IF same THEN transcript ELSE NoFile),
                file |-> NoFile]
    /\ UNCHANGED <<sessionVars, frameVars, streamVars, obsVars, preserve_history, stored,
                   client, writable>>

\* a turn of the peer that ends with "done"
PeerTurn ==
    /\ peer.open
    /\ Len(peer.history) < 2 * MaxTurns
    /\ PeerWrites(peer.history \o DoneEntries(<<"peer">>, <<"hi">>, <<>>, ProviderUsage),
                  TRUE)
    /\ UNCHANGED <<kind, capabilities, tool_schemas, history, frameVars, streamVars,
                   obsVars, preserve_history, stored, client, writable>>

\* the peer's client has gone: the disconnect handler saves
PeerDisconnects ==
    /\ peer.open
    /\ PeerWrites(peer.history, FALSE)
    /\ UNCHANGED <<kind, capabilities, tool_schemas, history, frameVars, streamVars,
                   obsVars, preserve_history, stored, client, writable>>

SharedInit ==
    /\ kind = "AgentSession"
    /\ capabilities = <<>>
    /\ tool_schemas = <<>>
    /\ history = <<>>
    /\ transcript = NoFile
    /\ pc = "accept"
    /\ EmptyFrame
    /\ NoStream
    /\ NothingObserved
    /\ Alone

PeerArrives ==
    \E same \in BOOLEAN : PeerConnects(same)

SharedNext ==
    \/ LifeAccept
    \/ Turn
    \/ ProviderText
    \/ ProviderCloses
    \/ ServerEnds
    \/ PeerArrives
    \/ PeerTurn
    \/ PeerDisconnects

SpecShared == SharedInit /\ [][SharedNext]_vars

\* C26: nothing keeps two sessions from using a transcript file at the same
\* time, and each save writes the whole list of the saving session.  For the
\* same agent name the file is what the last saver had, so the turns of the
\* other session are lost from it; for two names each file holds the history
\* of its own session only.
C26_LastSaverWinsOwnFileOnly ==
    /\ transcript \in {NoFile, SaveHistory(history)} \cup
                      (IF peer.same_agent THEN {SaveHistory(peer.history)} ELSE {})
    /\ ~peer.same_agent => peer.file \in {NoFile, SaveHistory(peer.history)}

\* the lost update: both sessions of the one agent have completed a turn and
\* saved, and the file has nothing of this session's turn
C26_Witness ==
    /\ peer.same_agent
    /\ saves > 0
    /\ \E i \in DOMAIN history : history[i].message = <<"hello">>
    /\ transcript = SaveHistory(peer.history)
    /\ \E i \in DOMAIN peer.history : peer.history[i].message = <<"peer">>
    /\ \A i \in DOMAIN transcript.data : transcript.data[i].message # <<"hello">>

(***************************************************************************)
(* SpecCancel: a connection whose client sends one user message and may    *)
(* close the WebSocket at any moment of the turn.  The agent has           *)
(* file-operations, so tools of the model's calls are dispatched.  After   *)
(* the close no message arrives: receive_json raises WebSocketDisconnect   *)
(* the next time the message loop comes to it.                             *)
(***************************************************************************)
\* The client closes the WebSocket during a turn.  Nothing of the session changes:
\* send_message catches the exception of websocket.send_json and logs it,
\* and the handler has no other await on the socket.  What the session had
\* done by then is kept in client.
ClientCloses ==
    /\ kind = "AgentSession"
    /\ pc \notin {"accept", "idle", "closed"}
    /\ client.open
    /\ client' = [client EXCEPT !.open = FALSE, !.requests = requests,
                                !.started = Len(invocations), !.fed = Len(messages),
                                !.history = history, !.transcript = transcript]
    /\ UNCHANGED <<sessionVars, frameVars, streamVars, obsVars, preserve_history, stored,
                   peer, writable>>

CancelInit ==
    /\ kind = "AgentSession"
    /\ capabilities = <<"file-operations">>
    /\ tool_schemas = LoadTools(capabilities)
    /\ history = <<>>
    /\ transcript = NoFile
    /\ pc = "idle"
    /\ EmptyFrame
    /\ NoStream
    /\ NothingObserved
    /\ Alone

\* the one user message of the connection
CancelTurn ==
    /\ turns = 0
    /\ Turn

CancelNext ==
    \/ CancelTurn
    \/ ProviderText
    \/ ProviderToolCall
    \/ ProviderFinish
    \/ ToolStep
    \/ ToolDone
    \/ ClientCloses
    \/ ServerEnds

SpecCancel == CancelInit /\ [][CancelNext]_vars

\* C24: once the client has closed the WebSocket during a turn, the session
\* issues no further upstream request, starts no further tool, and feeds no
\* tool result back into the conversation.
C24_NothingStartedAfterClose ==
    ~client.open =>
        /\ requests = client.requests
        /\ Len(invocations) = client.started
        /\ pc \in {"stream", "tool", "await_tool"} => Len(messages) = client.fed

\* C25: nothing of a turn during which the client closed the WebSocket is
\* persisted: the history and the entries of the transcript file stay what
\* they were at the close, also after the disconnect handler has saved.
C25_CancelledTurnNotPersisted ==
    ~client.open =>
        /\ history = client.history
        /\ transcript.data = client.transcript.data

\* C29: a connected session that has handled no client message yet has sent
\* the info message that announces the capabilities and the tools.
C29_InfoMessageBeforeFirstReceive ==
    (kind = "AgentSession" /\ pc = "idle" /\ turns = 0)
        => ui = <<CapabilitiesInfo(capabilities, tool_schemas)>>

(***************************************************************************)
(* SpecDisk: a web session whose history directory stops being writable    *)
(* (removed, or made read-only) while the session is connected.            *)
(***************************************************************************)
HistoryDirLost ==
    /\ writable
    /\ writable' = FALSE
    /\ UNCHANGED <<sessionVars, frameVars, streamVars, obsVars, preserve_history, stored,
                   client, peer>>

DiskInit ==
    /\ Init
    /\ kind = "AgentSession"

DiskNext ==
    \/ Turn
    \/ ProviderText
    \/ ProviderFinish
    \/ ProviderError
    \/ HistoryDirLost

SpecDisk == DiskInit /\ [][DiskNext]_vars

TerminalEvents == {k \in DOMAIN ui : ui[k].type \in {"agent_message", "error"}}

\* C34: a call of handle_user_message sends exactly one terminal event, an
\* agent_message or an error, and it is the last message of the turn: never
\* both, and nothing after it.
C34_OneTerminalEvent ==
    kind = "AgentSession" =>
        /\ Cardinality(TerminalEvents) <= 1
        /\ TerminalEvents \subseteq {Len(ui)}
        /\ (pc = "idle" /\ last_end # "none") => TerminalEvents # {}

(***************************************************************************)
(* More properties of a session (Spec).                                    *)
(***************************************************************************)
\* the content events the handler has taken from the current request
ContentsTaken == SelectSeq(events, LAMBDA e : e.type = "content")

\* C31: while a response is streamed, the content events taken from it so
\* far are the last messages sent, one stream_chunk with is_complete false
\* per event, in order; a stream_chunk with is_complete true is sent only
\* right before an agent_message, and an agent_message only as the last
\* message right after one, with the text streamed since the last tool round.
C31_ContentForwardedInOrder ==
    kind = "AgentSession" =>
        /\ pc = "stream" =>
              LET n == Len(ContentsTaken)
              IN  /\ Len(ui) >= n
                  /\ \A i \in 1..n :
                        ui[Len(ui) - n + i] = StreamChunk(ContentsTaken[i].delta, FALSE)
        /\ \A k \in DOMAIN ui :
              /\ (ui[k].type = "stream_chunk" /\ ui[k].is_complete) =>
                    /\ k = Len(ui) - 1
                    /\ ui[k].content = <<>>
                    /\ ui[k + 1].type = "agent_message"
              /\ ui[k].type = "agent_message" =>
                    /\ k = Len(ui)
                    /\ k > 1
                    /\ ui[k - 1] = StreamChunk(<<>>, TRUE)
                    /\ ui[k].content = StreamedAfter(SubSeq(ui, 1, k - 2),
                                                     LastOfType(ui, "tool_result"))

\* two deltas, then done
C31_Witness ==
    /\ kind = "AgentSession"
    /\ last_end = "done"
    /\ Len(ui) = 4
    /\ ui[1] = StreamChunk(<<"hi">>, FALSE)
    /\ ui[2] = StreamChunk(<<"hi">>, FALSE)
    /\ ui[4].type = "agent_message"
    /\ ui[4].content = <<"hi", "hi">>

\* the last message sent or printed is the notice of a clear
JustCleared ==
    /\ pc = "idle"
    /\ ui # <<>>
    /\ ui[Len(ui)] \in {InfoMessage("History cleared"),
                         Printed("command", <<"History cleared.">>)}

\* C32: right after a clear (clear_history of a web session, /clear of the
\* CLI) of a session that preserves its history, the history is empty and
\* the transcript file holds no entry, so that a session made then loads
\* nothing.
C32_ClearIsCheckpoint ==
    (JustCleared /\ preserve_history) =>
        /\ history = <<>>
        /\ transcript.data = <<>>
        /\ LoadHistory(TRUE, transcript) = <<>>
        /\ RuntimeLoadHistory(TRUE, transcript) = <<>>

ToolCallsHandled == Cardinality({i \in DOMAIN messages : HasCalls(messages[i])})

\* C35: within a turn an upstream request is issued only at the start and
\* after a tool_calls event was handled: a stream that ends without done, error
\* or tool_calls does not make the session send the same request again.
C35_RequestOnlyAfterToolCalls ==
    (kind = "AgentSession" /\ pc # "idle") => requests <= 1 + ToolCallsHandled

ToolResultsSent == SelectSeq(ui, LAMBDA m : m.type = "tool_result")

\* C36: the success flag of a tool_result message equals the success flag
\* recorded for the same call in the tool-call metadata that is persisted with
\* the agent entry of the turn.
C36_SentSuccessIsRecordedSuccess ==
    (kind = "AgentSession" /\ pc = "idle" /\ last_end = "done" /\ transcript.exists) =>
        LET recorded == ItemToolCalls(transcript.data[Len(transcript.data)])
        IN  /\ Len(recorded) = Len(ToolResultsSent)
            /\ \A j \in DOMAIN recorded : recorded[j].success = ToolResultsSent[j].success

\* C37: in the CLI the message list sent upstream is the system prompt (if
\* any), the 20 most recent entries of the history that preceded the turn, the
\* current user message exactly once, and after it only the assistant and
\* tool messages the turn itself generated.
C37_UserMessageOnceAfterWindow ==
    (kind = "AgentRuntime" /\ pc \in {"chat", "run_tool"}) =>
        LET m == request.messages
            s == IF m[1].role = "system" THEN 1 ELSE 0
            before == LastN(at_start.history, HistoryWindow)
            k == Len(before)
        IN  /\ Len(m) >= s + k + 1
            /\ \A i \in 1..k :
                    /\ s + i <= Len(m)
                    /\ m[s + i] = [role |-> IF before[i].role = "user" THEN "user"
                                                                         ELSE "assistant",
                                   content |-> Content(before[i].message)]
            /\ m[s + k + 1] = [role |-> "user", content |-> Content(user_input)]
            /\ \A i \in (s + k + 2)..Len(m) : HasCalls(m[i]) \/ m[i].role = "tool"

(***************************************************************************)
(* SpecLoop: the message loop of one connection.  The client sends its     *)
(* messages whenever it likes, also while a turn is running; they wait in  *)
(* the socket until the loop comes back to `await websocket.receive_json()`.*)
(***************************************************************************)
ClientMessageTypes == {"user_message", "clear_history", "get_capabilities"}

LoopInit ==
    /\ Init
    /\ kind = "AgentSession"

ClientSends ==
    /\ client.open
    /\ turns + Len(client.pending) < MaxTurns
    /\ \E t \in ClientMessageTypes :
            client' = [client EXCEPT !.pending = Append(@, t)]
    /\ UNCHANGED <<sessionVars, frameVars, streamVars, obsVars, preserve_history, stored,
                   peer, writable>>

\* data = await websocket.receive_json() and the branch of its type
ServerReceives ==
    /\ client.pending # <<>>
    /\ LET message_type == Head(client.pending)
       IN  \/ message_type = "user_message" /\ \E text \in UserTexts : UserMessage(text)
           \/ message_type = "clear_history" /\ ClearHistory
           \/ message_type = "get_capabilities" /\ GetCapabilities
    /\ client' = [client EXCEPT !.pending = Tail(@)]
    /\ UNCHANGED <<sent, preserve_history, stored, peer, writable>>

LoopNext ==
    \/ ClientSends
    \/ ServerReceives
    \/ ProviderText
    \/ ProviderFinish
    \/ ProviderError

SpecLoop == LoopInit /\ [][LoopNext]_vars

InTurn == pc \notin {"idle", "accept", "closed", "exited"}

\* C38: the messages of one connection are processed one at a time: while a
\* turn is running no other client message is taken from the socket (so no
\* second turn starts), and the history changes only by the entries the
\* running turn appends when it ends on done.
C38_OneMessageAtATime ==
    [][InTurn =>
          /\ turns' = turns
          /\ \E more \in {<<>>} \cup {<<t>> : t \in ClientMessageTypes} :
                client'.pending = client.pending \o more
          /\ history' # history =>
                /\ pc' = "idle"
                /\ last_end' = "done"
                /\ Len(history') = Len(history) + 2
                /\ SubSeq(history', 1, Len(history)) = history]_vars

\* a clear_history message arrived while a turn was streaming and waits
C38_Witness ==
    /\ pc = "stream"
    /\ accumulated_content # <<>>
    /\ client.pending # <<>>
    /\ Head(client.pending) = "clear_history"

(***************************************************************************)
(* More properties of the sessions of one agent (SpecLife).                *)
(***************************************************************************)
\* the session has ended and handled no message in between
LoadedAndSaved == pc \in {"closed", "exited"} /\ ui = <<>> /\ last_end = "none"

\* C39: a session that loads the transcript and saves it again, whichever
\* implementation it is, leaves every entry with the tool-call and usage
\* metadata a web session had written.
C39_MetadataSurvivesLoadSave ==
    LoadedAndSaved => SameEntries(transcript.data, client.transcript.data)

\* the parameters the functions of tools.py declare by name
DeclaredParams(t) ==
    CASE t = "create_agent" ->
            {"name", "description", "capabilities", "system_prompt", "_manager"}
      [] t \in {"modify_agent", "delete_agent", "get_agent_details"} -> {"name", "_manager"}
      [] t = "list_agents" -> {"_manager"}
      [] t \in {"read_file", "list_files", "delete_file"} -> {"path"}
      [] t = "write_file" -> {"path", "content"}
      [] t = "exec_python" -> {"code"}
      [] t = "exec_shell" -> {"command"}
      [] t = "web_search" -> {"query"}
      [] t = "web_fetch" -> {"url"}
      [] t = "get_context_info" -> {"_runtime"}
      [] OTHER -> {}

\* modify_agent(name, _manager=None, **updates)
TakesAnyKeyword(t) == t = "modify_agent"

\* function(**tool_args) enters the function: every keyword is a declared
\* parameter or the function takes **kwargs; otherwise the call raises
\* TypeError before the body runs
Binds(t, args) == TakesAnyKeyword(t) \/ args \subseteq DeclaredParams(t)

\* C40: the values a tool function gets under _manager and _runtime are the
\* session's own: an argument the model supplies under a name that starts with
\* an underscore never reaches the function of a tool, and no such name is
\* shown in tool_start or recorded in the history.
C40_UnderscoreArgumentsAreTheSessions ==
    /\ \A i \in DOMAIN invocations :
            Binds(invocations[i].name, invocations[i].args) =>
                {k \in invocations[i].args : StartsWithUnderscore(k)}
                    \subseteq InternalParams(invocations[i].name)
    /\ \A k \in DOMAIN ui :
            ui[k].type = "tool_start" => \A a \in ui[k].arguments : ~StartsWithUnderscore(a)
    /\ \A i \in DOMAIN history : \A j \in DOMAIN ItemToolCalls(history[i]) :
            \A a \in ItemToolCalls(history[i])[j].arguments : ~StartsWithUnderscore(a)

====
